---- MODULE Spec2Model ----
(***************************************************************************)
(* Verification model of DarkHistory's Spectra container                   *)
(* (darkhistory/spec/spectra.py) and of the ICS regime dispatcher          *)
(* (darkhistory/electrons/ics/ics_spectrum.py).                            *)
(*                                                                         *)
(* Numbers.  Amplitudes, bin indices and energies of synthetic bins are    *)
(* exact rationals <<n, d>> in lowest terms with d > 0; d = 0 stands for   *)
(* the IEEE results of a division by zero (<<1,0>> = inf, <<-1,0>> = -inf, *)
(* <<0,0>> = nan).  Floating round-off is not modelled.                    *)
(* Energy abscissae hold powers of two, so that every logarithm the code   *)
(* takes is an integer multiple of ln 2; log bin widths are counted in     *)
(* units of (ln 2)/2.                                                      *)
(***************************************************************************)
EXTENDS Integers, Sequences, FiniteSets, TLC

-----------------------------------------------------------------------------
(* Bounds of the model *)

\* largest exponent k of an abscissa entry 2^k
MaxExp == 3
\* largest entry of a constructed spectrum
MaxAmp == 2
\* number of mutating calls (rebin, switch_spec_type) made on one Spectra
MaxOps == 2

-----------------------------------------------------------------------------
(* Exact rational arithmetic *)

Abs(x) == IF x < 0 THEN -x ELSE x

Sign(x) == IF x < 0 THEN -1 ELSE IF x > 0 THEN 1 ELSE 0

RECURSIVE GCD(_, _)
GCD(a, b) == IF b = 0 THEN a ELSE GCD(b, a % b)

Norm(n, d) ==
    IF d = 0 THEN <<Sign(n), 0>>
    ELSE LET g == GCD(Abs(n), Abs(d))
             s == IF d < 0 THEN -1 ELSE 1
         IN  <<(s * n) \div g, (s * d) \div g>>

R(i) == <<i, 1>>

Zero == R(0)

One == R(1)

RAdd(p, q) == Norm(p[1] * q[2] + q[1] * p[2], p[2] * q[2])

RSub(p, q) == Norm(p[1] * q[2] - q[1] * p[2], p[2] * q[2])

RMul(p, q) == Norm(p[1] * q[1], p[2] * q[2])

RDiv(p, q) == Norm(p[1] * q[2], p[2] * q[1])

RLt(p, q) == p[1] * q[2] < q[1] * p[2]

RLe(p, q) == p[1] * q[2] <= q[1] * p[2]

\* np.floor(x).astype(int)
Floor(p) == p[1] \div p[2]

\* np.sum over a sequence of rationals
RECURSIVE RSum(_)
RSum(s) == IF s = <<>> THEN Zero ELSE RAdd(s[1], RSum(Tail(s)))

\* 2^k
RECURSIVE Pow2(_)
Pow2(k) == IF k = 0 THEN 1 ELSE 2 * Pow2(k - 1)

\* np.log(e) in units of ln 2, for e a power of two
RECURSIVE Log2(_)
Log2(e) == IF e <= 1 THEN 0 ELSE 1 + Log2(e \div 2)

\* the subsequence of s at the (increasing) positions for which keep holds
RECURSIVE SelectIdx(_, _)
SelectIdx(n, keep) ==
    IF n = 0 THEN <<>>
    ELSE IF keep[n] THEN Append(SelectIdx(n - 1, keep), n)
         ELSE SelectIdx(n - 1, keep)

-----------------------------------------------------------------------------
(* spectools: bin boundaries and log bin widths of an abscissa *)

\* np.log of every entry of an abscissa, in units of ln 2
LogOf(e) == [i \in 1..Len(e) |-> Log2(e[i])]

\* log of the k-th bin boundary (k = 0 .. n) in units of (ln 2)/2: geometric
\* midpoints between neighbours, the two outer boundaries extrapolated with
\* the spacing of the outermost pair
get_bin_bound(lg, k) ==
    LET n == Len(lg)
    IN  IF k = 0 THEN 3 * lg[1] - lg[2]
        ELSE IF k = n THEN 3 * lg[n] - lg[n - 1]
        ELSE lg[k] + lg[k + 1]

\* np.diff(np.log(get_bin_bound(eng))), from the logs of the abscissa
get_log_bin_width(lg) ==
    [i \in 1..Len(lg) |-> get_bin_bound(lg, i) - get_bin_bound(lg, i - 1)]

-----------------------------------------------------------------------------
(* Spectra: a value is a record of the attributes of one object *)

SpecTypes == {"N", "dNdE"}

Rows(S) == Len(S.grid_vals)

\* dNdlogE of totN / toteng, element (i, j); w is the log bin width of bin j
dNdlogE(S, w, i, j) ==
    IF S.spec_type = "dNdE"
    THEN RMul(S.grid_vals[i][j], R(S.eng[j]))
    ELSE RDiv(S.grid_vals[i][j], R(w))

\* Spectra.totN('bin'): number of particles in every bin of every spectrum
totN_bin_w(S, w) ==
    [i \in 1..Rows(S) |->
        [j \in 1..Len(S.eng) |-> RMul(dNdlogE(S, w[j], i, j), R(w[j]))]]

totN_bin(S) == totN_bin_w(S, get_log_bin_width(LogOf(S.eng)))

\* Spectra.toteng('bin'): energy in every bin of every spectrum
toteng_bin_w(S, w) ==
    [i \in 1..Rows(S) |->
        [j \in 1..Len(S.eng) |->
            RMul(RMul(dNdlogE(S, w[j], i, j), R(S.eng[j])), R(w[j]))]]

toteng_bin(S) == toteng_bin_w(S, get_log_bin_width(LogOf(S.eng)))

\* mutant: np.diff(out_eng) >= 0
IsIncreasing_nonstrict(a) == \A i \in 1..(Len(a) - 1) : a[i + 1] >= a[i]

\* np.all(np.diff(out_eng) > 0)
IsIncreasing(a) == \A i \in 1..(Len(a) - 1) : a[i + 1] > a[i]

\* np.interp(x, xp, fp, left, right) for increasing xp
Interp(x, xp, fp, left, right) ==
    LET m == Len(xp)
    IN  IF RLt(x, xp[1]) THEN left
        ELSE IF RLt(xp[m], x) THEN right
        ELSE IF x = xp[m] THEN fp[m]
        ELSE LET j == CHOOSE j \in 1..(m - 1) : RLe(xp[j], x) /\ RLt(x, xp[j + 1])
             IN  RAdd(fp[j],
                      RMul(RDiv(RSub(x, xp[j]), RSub(xp[j + 1], xp[j])),
                           RSub(fp[j + 1], fp[j])))

\* rebin: the abscissa out_eng preceded by one bin that takes the underflow
first_bin_eng(out_eng) == RDiv(R(out_eng[1] * out_eng[1]), R(out_eng[2]))

new_eng_of(out_eng) ==
    <<first_bin_eng(out_eng)>> \o [k \in 1..Len(out_eng) |-> R(out_eng[k])]

new_eng_log(out_eng) ==
    <<2 * Log2(out_eng[1]) - Log2(out_eng[2])>> \o LogOf(out_eng)

\* rebin: bin index of every sample of eng in out_eng; the added bin has
\* index -1, underflow -2, overflow new_eng.size
bin_ind_in(e, new_eng, fp) ==
    [j \in 1..Len(e) |-> Interp(R(e[j]), new_eng, fp, R(-2), R(Len(new_eng)))]

bin_ind_of(e, out_eng) ==
    bin_ind_in(e, new_eng_of(out_eng), [k \in 1..(Len(out_eng) + 1) |-> R(k - 2)])

\* mutant: only the samples below the added bin count as low
is_low_below_added(b) == RLt(b, R(-1))

\* rebin: the three classes of source samples
is_low(b) == RLt(b, Zero)

is_high(b, sz) == b = R(sz)

is_reg(b, sz) == RLe(Zero, b) /\ RLe(b, R(sz - 1))

\* mutant: ind_high.size > 1
rebin_warns_two(b, sz) ==
    \E j, k \in 1..Len(b) : j # k /\ b[j] = R(sz) /\ b[k] = R(sz)

\* rebin: a warning is issued iff some sample lies above the new abscissa
rebin_warns(b, sz) == \E j \in 1..Len(b) : is_high(b[j], sz)

\* rebin: factor that turns a number of particles into an entry of the
\* given type, for every bin of new_eng
fac_in(st, new_eng, w) ==
    [k \in 1..Len(new_eng) |->
        IF st = "dNdE" THEN RMul(new_eng[k], R(w[k])) ELSE One]

fac_of(st, out_eng) ==
    fac_in(st, new_eng_of(out_eng), get_log_bin_width(new_eng_log(out_eng)))

\* mutant: no special case for a sample on the last entry of new_eng
reg_bin_low_nofix(b, sz) == Floor(b)

\* rebin: lower and upper destination bin of a regular sample; a sample on
\* the last entry of new_eng is given to the last bin
reg_bin_low(b, sz) ==
    IF Floor(b) = sz - 2 THEN sz - 3 ELSE Floor(b)

reg_bin_upp(b, sz) ==
    IF Floor(b) + 1 = sz - 1 THEN sz - 2 ELSE Floor(b) + 1

\* rebin: share of N particles at bin index b given to the lower / upper bin
reg_data_low(b, sz, N, fac) ==
    RDiv(RMul(RSub(R(reg_bin_upp(b, sz)), b), N), fac[reg_bin_low(b, sz) + 2])

reg_data_upp(b, sz, N, fac) ==
    RDiv(RMul(RSub(b, R(reg_bin_low(b, sz))), N), fac[reg_bin_upp(b, sz) + 2])

\* rebin: particles of the low samples that stay above the underflow
N_above_underflow(b, ind_low, N_row) ==
    RSum([t \in 1..Len(ind_low) |->
            RMul(RSub(b[ind_low[t]], R(Floor(b[ind_low[t]]))), N_row[ind_low[t]])])

eng_above_underflow(N_above, new_eng) == RMul(N_above, new_eng[2])

\* mutant: the energy underflow summed from N_arr_low instead of toteng_arr_low
eng_underflow_from_N(b, ind_low, N_row, toteng_row, new_eng) ==
    RSub(RSum([t \in 1..Len(ind_low) |-> N_row[ind_low[t]]]),
         eng_above_underflow(N_above_underflow(b, ind_low, N_row), new_eng))

\* rebin: what one call adds to the underflow of one spectrum
N_underflow_of(b, ind_low, N_row) ==
    RSub(RSum([t \in 1..Len(ind_low) |-> N_row[ind_low[t]]]),
         N_above_underflow(b, ind_low, N_row))

eng_underflow_of(b, ind_low, N_row, toteng_row, new_eng) ==
    RSub(RSum([t \in 1..Len(ind_low) |-> toteng_row[ind_low[t]]]),
         eng_above_underflow(N_above_underflow(b, ind_low, N_row), new_eng))

\* rebin: row of new_data, one entry per bin of new_eng (np.add.at sums the
\* contributions that meet in one bin)
add_at(b, sz, ind_reg, low_data, data_low, data_upp) ==
    [k \in 1..sz |->
        RAdd(IF k = 2 THEN low_data ELSE Zero,
             RSum([t \in 1..Len(ind_reg) |->
                RAdd(IF reg_bin_low(b[ind_reg[t]], sz) + 2 = k
                     THEN data_low[t] ELSE Zero,
                     IF reg_bin_upp(b[ind_reg[t]], sz) + 2 = k
                     THEN data_upp[t] ELSE Zero)]))]

new_data_row(b, sz, ind_low, ind_reg, N_row, fac) ==
    add_at(b, sz, ind_reg,
           RDiv(N_above_underflow(b, ind_low, N_row), fac[2]),
           [t \in 1..Len(ind_reg) |->
                reg_data_low(b[ind_reg[t]], sz, N_row[ind_reg[t]], fac)],
           [t \in 1..Len(ind_reg) |->
                reg_data_upp(b[ind_reg[t]], sz, N_row[ind_reg[t]], fac)])

\* mutant: self._N_underflow = N_underflow
accumulate_assign(old, add) == [i \in 1..Len(old) |-> add[i]]

\* self._N_underflow += N_underflow
accumulate(old, add) == [i \in 1..Len(old) |-> RAdd(old[i], add[i])]

\* rebin: the statements after the bin indices, the per-bin totals and the
\* factor have been computed
rebin_with(S, out_eng, sz, b, ind_low, ind_reg, N_arr, toteng_arr, fac, new_eng) ==
    [self |->
        [S EXCEPT
            !.eng = out_eng,
            !.grid_vals = [i \in 1..Len(S.in_eng) |->
                Tail(new_data_row(b, sz, ind_low, ind_reg, N_arr[i], fac))],
            !.N_underflow = accumulate(S.N_underflow,
                [i \in 1..Rows(S) |-> N_underflow_of(b, ind_low, N_arr[i])]),
            !.eng_underflow = accumulate(S.eng_underflow,
                [i \in 1..Rows(S) |->
                    eng_underflow_of(b, ind_low, N_arr[i], toteng_arr[i], new_eng)])],
     outcome |-> "ok",
     warned |-> rebin_warns(b, sz)]

rebin_ind(S, out_eng, b) ==
    rebin_with(S, out_eng, Len(out_eng) + 1, b,
               SelectIdx(Len(b), [j \in 1..Len(b) |-> is_low(b[j])]),
               SelectIdx(Len(b), [j \in 1..Len(b) |-> is_reg(b[j], Len(out_eng) + 1)]),
               totN_bin(S), toteng_bin(S),
               fac_of(S.spec_type, out_eng), new_eng_of(out_eng))

\* Spectra.rebin(out_eng): the object after the call, with the exception
\* raised (outcome) and whether the warning was issued
rebin(S, out_eng) ==
    IF ~IsIncreasing(out_eng)
    THEN [self |-> S, outcome |-> "TypeError", warned |-> FALSE]
    ELSE rebin_ind(S, out_eng, bin_ind_of(S.eng, out_eng))

\* mutant: N is divided by the energy alone
switch_with_eng_only(S, log_bin_width) ==
    IF S.spec_type = "N"
    THEN [S EXCEPT
            !.grid_vals = [i \in 1..Rows(S) |-> [j \in 1..Len(S.eng) |->
                RDiv(S.grid_vals[i][j], R(S.eng[j]))]],
            !.spec_type = "dNdE"]
    ELSE IF S.spec_type = "dNdE"
    THEN [S EXCEPT
            !.grid_vals = [i \in 1..Rows(S) |-> [j \in 1..Len(S.eng) |->
                RMul(RMul(S.grid_vals[i][j], R(S.eng[j])), R(log_bin_width[j]))]],
            !.spec_type = "N"]
    ELSE S

\* Spectra.switch_spec_type(), given get_log_bin_width(self.eng)
switch_with(S, log_bin_width) ==
    IF S.spec_type = "N"
    THEN [S EXCEPT
            !.grid_vals = [i \in 1..Rows(S) |-> [j \in 1..Len(S.eng) |->
                RDiv(S.grid_vals[i][j], RMul(R(S.eng[j]), R(log_bin_width[j])))]],
            !.spec_type = "dNdE"]
    ELSE IF S.spec_type = "dNdE"
    THEN [S EXCEPT
            !.grid_vals = [i \in 1..Rows(S) |-> [j \in 1..Len(S.eng) |->
                RMul(RMul(S.grid_vals[i][j], R(S.eng[j])), R(log_bin_width[j]))]],
            !.spec_type = "N"]
    ELSE S

switch_spec_type(S) == switch_with(S, get_log_bin_width(LogOf(S.eng)))

\* Spectra(spec_arr, eng, in_eng=..., spec_type=...) from an ndarray:
\* tag names the tag array that is given, the other one is filled with -1
Spectra_init(spec_arr, e, tag, tags, st) ==
    [eng           |-> e,
     grid_vals     |-> spec_arr,
     spec_type     |-> st,
     in_eng        |-> IF tag = "in_eng" THEN tags ELSE [i \in 1..Len(tags) |-> -1],
     rs            |-> IF tag = "rs" THEN tags ELSE [i \in 1..Len(tags) |-> -1],
     N_underflow   |-> [i \in 1..Len(tags) |-> Zero],
     eng_underflow |-> [i \in 1..Len(tags) |-> Zero]]

-----------------------------------------------------------------------------
(* Spectra arithmetic.  A Python value is a record of its type (kind) and  *)
(* its content (val); a call gives the exception raised (outcome), the     *)
(* value returned and the object the method was called on after the call.  *)

Val(kind, val) == [kind |-> kind, val |-> val]

None == Val("None", <<>>)

Returned(v, S) == [outcome |-> "ok", value |-> v, self |-> S]

Raised(exc, S) == [outcome |-> exc, value |-> None, self |-> S]

\* Spectra([]): no member, no abscissa, the default spec_type
Spectra_empty ==
    [eng           |-> <<>>,
     grid_vals     |-> << <<>> >>,
     spec_type     |-> "dNdE",
     in_eng        |-> <<>>,
     rs            |-> <<>>,
     N_underflow   |-> <<>>,
     eng_underflow |-> <<>>]

\* mutant: only the lengths of the two arrays are compared
array_equal_len(a, b) == Len(a) = Len(b)

\* np.array_equal(a, b)
array_equal(a, b) == a = b

Max(a, b) == IF a >= b THEN a ELSE b

\* numpy broadcasting of two 2-D shapes: equal, or one of them 1, per axis
Broadcasts(a, b) ==
    /\ Len(a) = Len(b) \/ Len(a) = 1 \/ Len(b) = 1
    /\ Len(a[1]) = Len(b[1]) \/ Len(a[1]) = 1 \/ Len(b[1]) = 1

At(a, i, j) ==
    a[IF Len(a) = 1 THEN 1 ELSE i][IF Len(a[1]) = 1 THEN 1 ELSE j]

\* a + b and a * b of two 2-D arrays that broadcast
grid_add(a, b) ==
    [i \in 1..Max(Len(a), Len(b)) |->
        [j \in 1..Max(Len(a[1]), Len(b[1])) |-> RAdd(At(a, i, j), At(b, i, j))]]

grid_mul(a, b) ==
    [i \in 1..Max(Len(a), Len(b)) |->
        [j \in 1..Max(Len(a[1]), Len(b[1])) |-> RMul(At(a, i, j), At(b, i, j))]]

\* 1/a of a 2-D array (a division by zero gives inf and a warning)
grid_inv(a) == [i \in 1..Len(a) |-> [j \in 1..Len(a[i]) |-> RDiv(One, a[i][j])]]

\* np.issubdtype(type(other), float) or np.issubdtype(type(other), int)
is_scalar(other) == other.kind \in {"int", "float"}

\* a list as numpy converts it: a 1-D array of floats
as_array(other) ==
    IF other.kind = "list" THEN [k \in 1..Len(other.val) |-> R(other.val[k])]
    ELSE other.val

\* the in_eng / rs of the result of a binary operation: the tag array of
\* self if the other operand has the same one, else what Spectra([]) has
common_tags(mine, theirs) == IF array_equal(mine, theirs) THEN mine ELSE <<>>

\* Spectra.__add__(self, other)
Spectra_add(S, other) ==
    IF other.kind = "Spectra"
    THEN IF ~array_equal(S.eng, other.val.eng) THEN Raised("TypeError", S)
         ELSE IF S.spec_type # other.val.spec_type THEN Raised("TypeError", S)
         ELSE IF ~Broadcasts(S.grid_vals, other.val.grid_vals)
              THEN Raised("ValueError", S)
         ELSE Returned(Val("Spectra",
                [Spectra_empty EXCEPT
                    !.spec_type = S.spec_type,
                    !.grid_vals = grid_add(S.grid_vals, other.val.grid_vals),
                    !.eng = S.eng,
                    !.in_eng = common_tags(S.in_eng, other.val.in_eng),
                    !.rs = common_tags(S.rs, other.val.rs)]), S)
    ELSE IF other.kind = "ndarray"
    THEN IF Len(other.val) \notin {1, Len(S.grid_vals[1])}
         THEN Raised("ValueError", S)
         ELSE Returned(None,
                [S EXCEPT !.grid_vals = grid_add(S.grid_vals, <<other.val>>)])
    ELSE Raised("TypeError", S)

\* Spectra.__radd__(self, other): the name npissubclass_ is not defined
Spectra_radd(S, other) == Raised("NameError", S)

\* the result of a product that is built from self alone
scaled(S, g) ==
    [Spectra_empty EXCEPT
        !.eng = S.eng, !.in_eng = S.in_eng, !.rs = S.rs,
        !.spec_type = S.spec_type, !.grid_vals = g]

\* the result of a product of two Spectra: spec_type is set only if the two
\* have the same one
product(S, T) ==
    [Spectra_empty EXCEPT
        !.eng = S.eng,
        !.in_eng = common_tags(S.in_eng, T.in_eng),
        !.rs = common_tags(S.rs, T.rs),
        !.spec_type = IF S.spec_type = T.spec_type THEN S.spec_type ELSE @,
        !.grid_vals = grid_mul(S.grid_vals, T.grid_vals)]

\* Spectra.__mul__(self, other)
Spectra_mul(S, other) ==
    IF is_scalar(other)
    THEN Returned(Val("Spectra",
            scaled(S, grid_mul(S.grid_vals, << <<other.val>> >>))), S)
    ELSE IF other.kind = "ndarray"
    THEN IF Len(other.val) # Len(S.grid_vals) THEN Raised("ValueError", S)
         ELSE Returned(Val("Spectra",
                scaled(S, [i \in 1..Len(S.grid_vals) |->
                    [j \in 1..Len(S.grid_vals[i]) |->
                        RMul(S.grid_vals[i][j], other.val[i])]])), S)
    ELSE IF other.kind = "Spectra"
    THEN IF ~array_equal(S.eng, other.val.eng) THEN Raised("TypeError", S)
         ELSE IF ~Broadcasts(S.grid_vals, other.val.grid_vals)
              THEN Raised("ValueError", S)
         ELSE Returned(Val("Spectra", product(S, other.val)), S)
    ELSE Returned(None, S)

\* Spectra.__rmul__(self, other)
Spectra_rmul(S, other) ==
    IF is_scalar(other)
    THEN Returned(Val("Spectra",
            scaled(S, grid_mul(S.grid_vals, << <<other.val>> >>))), S)
    ELSE IF other.kind \in {"list", "ndarray"}
    THEN IF Len(other.val) \notin {1, Len(S.grid_vals[1])}
         THEN Raised("ValueError", S)
         ELSE Returned(Val("Spectra",
                scaled(S, grid_mul(S.grid_vals, <<as_array(other)>>))), S)
    ELSE IF other.kind = "Spectra"
    THEN IF ~array_equal(S.eng, other.val.eng) THEN Raised("TypeError", S)
         ELSE IF ~Broadcasts(S.grid_vals, other.val.grid_vals)
              THEN Raised("ValueError", S)
         ELSE Returned(Val("Spectra", product(S, other.val)), S)
    ELSE Returned(None, S)

\* -1*other: other.__rmul__(-1) for a Spectra, Python and numpy otherwise
minus_one_times(other) ==
    IF other.kind = "Spectra"
    THEN Spectra_rmul(other.val, Val("int", R(-1))).value
    ELSE IF is_scalar(other) THEN Val(other.kind, RMul(R(-1), other.val))
    ELSE IF other.kind = "ndarray"
    THEN Val("ndarray", [k \in 1..Len(other.val) |-> RMul(R(-1), other.val[k])])
    ELSE Val("list", <<>>)

\* Spectra.__sub__(self, other): self + -1*other
Spectra_sub(S, other) == Spectra_add(S, minus_one_times(other))

\* Spectra.__rsub__(self, other): other + -1*self, which is other.__add__
\* for a Spectra and the __radd__ of -1*self for everything else
Spectra_rsub(S, other) ==
    IF other.kind = "Spectra"
    THEN [Spectra_add(other.val, minus_one_times(Val("Spectra", S)))
            EXCEPT !.self = S]
    ELSE [Spectra_radd(minus_one_times(Val("Spectra", S)).val, other)
            EXCEPT !.self = S]

\* inv_spectra of __truediv__ and __rtruediv__
inv_spectra(S) ==
    [Spectra_empty EXCEPT
        !.eng = S.eng, !.in_eng = S.in_eng, !.grid_vals = grid_inv(S.grid_vals),
        !.rs = S.rs, !.spec_type = S.spec_type]

\* Spectra.__truediv__(self, other)
Spectra_truediv(S, other) ==
    IF other.kind = "Spectra"
    THEN Spectra_mul(S, Val("Spectra", inv_spectra(other.val)))
    ELSE IF is_scalar(other)
    THEN IF other.val = Zero THEN Raised("ZeroDivisionError", S)
         ELSE Spectra_mul(S, Val("float", RDiv(One, other.val)))
    ELSE IF other.kind = "ndarray"
    THEN Spectra_mul(S,
            Val("ndarray", [k \in 1..Len(other.val) |-> RDiv(One, other.val[k])]))
    ELSE Raised("TypeError", S)

\* Spectra.__rtruediv__(self, other): other * inv_spectra, which is
\* other.__mul__ for a Spectra and inv_spectra.__rmul__ for everything else
Spectra_rtruediv(S, other) ==
    IF other.kind = "Spectra"
    THEN [Spectra_mul(other.val, Val("Spectra", inv_spectra(S))) EXCEPT !.self = S]
    ELSE [Spectra_rmul(inv_spectra(S), other) EXCEPT !.self = S]

\* the method of Spectra that an operator calls
arith(op, S, other) ==
    CASE op = "__add__"      -> Spectra_add(S, other)
      [] op = "__radd__"     -> Spectra_radd(S, other)
      [] op = "__sub__"      -> Spectra_sub(S, other)
      [] op = "__rsub__"     -> Spectra_rsub(S, other)
      [] op = "__mul__"      -> Spectra_mul(S, other)
      [] op = "__rmul__"     -> Spectra_rmul(S, other)
      [] op = "__truediv__"  -> Spectra_truediv(S, other)
      [] op = "__rtruediv__" -> Spectra_rtruediv(S, other)

-----------------------------------------------------------------------------
(* ICS spectrum.  Energies are counted in units of the electron mass me    *)
(* and the temperature in units of TCMB(400), so that gamma and y are      *)
(* integers.  An entry of a spectrum array is a record of the evaluator    *)
(* that produced it (by), the energies it was evaluated at (e, p), the     *)
(* power of y it was multiplied with (ypow) and its magnitude (mag): zero, *)
(* pos (1e-100 or more), tiny (positive, below 1e-100) or neg (negative).  *)
(* The integrals of the kernels are not evaluated: inside ics_spec an      *)
(* element that the kinematics allow is taken to be pos, and in the calls  *)
(* of nonrel_spec and rel_spec themselves the magnitude that a kernel      *)
(* yields at a photon energy is any of them.                               *)

\* ics_spec: rel_bound
rel_bound == 20

\* mutant: gamma_mask >= rel_bound
is_rel_ge(gamma) == gamma >= rel_bound

\* ics_spec: rel = (gamma_mask > rel_bound)
is_rel(gamma) == gamma > rel_bound

\* ics_spec: gamma <= rel_bound, the electrons looked up in nonrel_tf
is_nonrel(gamma) == gamma <= rel_bound

Elem(by, e, p, ypow, mag) == [by |-> by, e |-> e, p |-> p, ypow |-> ypow, mag |-> mag]

\* an entry of np.zeros
zero_elem == Elem("zeros", Zero, Zero, 0, "zero")

\* no reference table given (None)
NoTable == [name |-> "None", elo |-> 0, ehi |-> 0, plo |-> 0, phi |-> 0, mag |-> "zero"]

\* number of entries of the arrays of ics_spec, and the electron and the
\* photon that entry k (in row-major order) belongs to
ics_size(a) ==
    IF a.as_pairs THEN Len(a.eleckineng) ELSE Len(a.eleckineng) * Len(a.photeng)

elec_of(a, k) == IF a.as_pairs THEN k ELSE ((k - 1) \div Len(a.photeng)) + 1

phot_of(a, k) == IF a.as_pairs THEN k ELSE ((k - 1) % Len(a.photeng)) + 1

\* ics_spec: gamma = eleckineng/me + 1, eleceng = eleckineng + me
gamma_of(eleckineng) == [i \in 1..Len(eleckineng) |-> eleckineng[i] + 1]

eleceng_of(eleckineng) == [i \in 1..Len(eleckineng) |-> eleckineng[i] + 1]

\* ics_spec: gamma_mask, eleceng_mask, eleckineng_mask, photeng_mask
gamma_mask(a) == [k \in 1..ics_size(a) |-> gamma_of(a.eleckineng)[elec_of(a, k)]]

eleceng_mask(a) == [k \in 1..ics_size(a) |-> eleceng_of(a.eleckineng)[elec_of(a, k)]]

eleckineng_mask(a) == [k \in 1..ics_size(a) |-> a.eleckineng[elec_of(a, k)]]

photeng_mask(a) == [k \in 1..ics_size(a) |-> a.photeng[phot_of(a, k)]]

\* ~rel
Not(mask) == [k \in 1..Len(mask) |-> ~mask[k]]

\* arr[mask]
Masked(arr, mask) ==
    [t \in 1..Len(SelectIdx(Len(mask), mask)) |-> arr[SelectIdx(Len(mask), mask)[t]]]

\* arr[mask] = vals: the t-th entry of vals goes to the t-th entry of arr at
\* which mask holds
assign_masked(arr, mask, vals) ==
    [k \in 1..Len(arr) |->
        IF mask[k] THEN vals[Cardinality({t \in 1..k : mask[t]})] ELSE arr[k]]

\* rel_spec(eleceng, photeng, T, inf_upp_bound=True, as_pairs=True): an
\* element is good iff lowlim > 0, which is photeng < eleceng; the others
\* stay zero
rel_spec(eleceng, photeng) ==
    [t \in 1..Len(eleceng) |->
        Elem("rel_spec", R(eleceng[t]), R(photeng[t]), 0,
             IF photeng[t] < eleceng[t] THEN "pos" ELSE "zero")]

\* nonrel_spec(eleckineng, photeng, T, as_pairs=True)
nonrel_spec(eleckineng, photeng) ==
    [t \in 1..Len(eleckineng) |->
        Elem("nonrel_spec", R(eleckineng[t]), R(photeng[t]), 0, "pos")]

\* interp_func of a reference table: every electron energy asked for has to
\* lie in the table
table_covers(tf, e) ==
    \A t \in 1..Len(e) : RLe(R(tf.elo), e[t]) /\ RLe(e[t], R(tf.ehi))

\* interp_func(p, e).flatten(): one row per electron energy; a photon energy
\* outside the table gives zero
interp_func(tf, p, e) ==
    [k \in 1..(Len(e) * Len(p)) |->
        Elem(tf.name, e[((k - 1) \div Len(p)) + 1], p[((k - 1) % Len(p)) + 1], 0,
             IF /\ RLe(R(tf.plo), p[((k - 1) % Len(p)) + 1])
                /\ RLe(p[((k - 1) % Len(p)) + 1], R(tf.phi))
             THEN tf.mag ELSE "zero")]

\* mutant: y**2 for either table
times_y_squared(arr, n) == [k \in 1..Len(arr) |-> [arr[k] EXCEPT !.ypow = 2]]

\* y**n * arr
times_y(arr, n) == [k \in 1..Len(arr) |-> [arr[k] EXCEPT !.ypow = n]]

\* mutant: spec[(spec > 0) & (spec < 1e-100)] = 0.
clamp_positive(arr) ==
    [k \in 1..Len(arr) |->
        IF arr[k].mag = "tiny" THEN [arr[k] EXCEPT !.mag = "zero"] ELSE arr[k]]

\* spec[spec < 1e-100] = 0.
clamp(arr) ==
    [k \in 1..Len(arr) |->
        IF arr[k].mag \in {"tiny", "neg"} THEN [arr[k] EXCEPT !.mag = "zero"] ELSE arr[k]]

\* TransFuncAtRedshift.__init__(self, spec_arr, in_eng, dlnz, rebin_eng=None)
TransFuncAtRedshift_params == {"spec_arr", "in_eng", "dlnz", "rebin_eng"}

\* the exception a call of TransFuncAtRedshift with the keywords kw raises:
\* a keyword that is no parameter is rejected; self.in_eng = in_eng assigns
\* to a property of Spectra that has no setter
TransFuncAtRedshift_init(kw) ==
    IF kw \subseteq TransFuncAtRedshift_params THEN "AttributeError"
    ELSE "TypeError"

\* the result of a step of ics_spec: the exception raised and the arrays
IcsStep(exc, rel_arr, spec_arr) == [outcome |-> exc, rel |-> rel_arr, spec |-> spec_arr]

\* ics_spec, lines 941-957: the paired arrays have to be of one length;
\* np.zeros(gamma) takes the array gamma of floats as a shape and raises
ics_masks(a) ==
    IF a.as_pairs
    THEN IF Len(a.eleckineng) # Len(a.photeng) THEN IcsStep("TypeError", <<>>, <<>>)
         ELSE IcsStep("TypeError", <<>>, <<>>)
    ELSE IcsStep("ok", <<>>, [k \in 1..ics_size(a) |-> zero_elem])

\* ics_spec, lines 959-963
ics_classify(a, spec_arr) ==
    IcsStep("ok", [k \in 1..ics_size(a) |-> is_rel(gamma_mask(a)[k])], spec_arr)

\* spec[mask] = vals, which raises if vals has not one entry per entry of
\* spec at which mask holds
ics_assign(rel_arr, spec_arr, mask, vals) ==
    IF Len(vals) # Len(SelectIdx(Len(mask), mask))
    THEN IcsStep("ValueError", rel_arr, spec_arr)
    ELSE IcsStep("ok", rel_arr, assign_masked(spec_arr, mask, vals))

\* mutant: eleceng[gamma > rel_bound], not scaled by y
rel_tf_eleceng_unscaled(a) ==
    [t \in 1..Len(Masked(eleceng_of(a.eleckineng),
                         [i \in 1..Len(a.eleckineng) |-> is_rel(gamma_of(a.eleckineng)[i])])) |->
        R(Masked(eleceng_of(a.eleckineng),
                 [i \in 1..Len(a.eleckineng) |-> is_rel(gamma_of(a.eleckineng)[i])])[t])]

\* y*eleceng[gamma > rel_bound] and eleckineng[gamma <= rel_bound]
rel_tf_eleceng(a) ==
    [t \in 1..Len(Masked(eleceng_of(a.eleckineng),
                         [i \in 1..Len(a.eleckineng) |-> is_rel(gamma_of(a.eleckineng)[i])])) |->
        R(a.T * Masked(eleceng_of(a.eleckineng),
                       [i \in 1..Len(a.eleckineng) |-> is_rel(gamma_of(a.eleckineng)[i])])[t])]

nonrel_tf_eleckineng(a) ==
    [t \in 1..Len(Masked(a.eleckineng,
                         [i \in 1..Len(a.eleckineng) |-> is_nonrel(gamma_of(a.eleckineng)[i])])) |->
        R(Masked(a.eleckineng,
                 [i \in 1..Len(a.eleckineng) |-> is_nonrel(gamma_of(a.eleckineng)[i])])[t])]

\* ics_spec, lines 965-998: the relativistic elements
ics_rel(a, rel_arr, spec_arr) ==
    IF a.rel_tf # NoTable
    THEN IF a.as_pairs THEN IcsStep("TypeError", rel_arr, spec_arr)
         ELSE IF ~table_covers(a.rel_tf, rel_tf_eleceng(a))
         THEN IcsStep("ValueError", rel_arr, spec_arr)
         ELSE ics_assign(rel_arr, spec_arr, rel_arr,
                times_y(interp_func(a.rel_tf,
                            [j \in 1..Len(a.photeng) |-> R(a.T * a.photeng[j])],
                            rel_tf_eleceng(a)), 4))
    ELSE ics_assign(rel_arr, spec_arr, rel_arr,
            rel_spec(Masked(eleceng_mask(a), rel_arr), Masked(photeng_mask(a), rel_arr)))

\* ics_spec, lines 1000-1027: the non-relativistic elements
ics_nonrel(a, rel_arr, spec_arr) ==
    IF a.nonrel_tf # NoTable
    THEN IF ~table_covers(a.nonrel_tf, nonrel_tf_eleckineng(a))
         THEN IcsStep("ValueError", rel_arr, spec_arr)
         ELSE ics_assign(rel_arr, spec_arr, Not(rel_arr),
                times_y(interp_func(a.nonrel_tf,
                            [j \in 1..Len(a.photeng) |-> Norm(a.photeng[j], a.T)],
                            nonrel_tf_eleckineng(a)), 2))
    ELSE ics_assign(rel_arr, spec_arr, Not(rel_arr),
            nonrel_spec(Masked(eleckineng_mask(a), Not(rel_arr)),
                        Masked(photeng_mask(a), Not(rel_arr))))

\* ics_spec, line 1031
ics_clamp(rel_arr, spec_arr) == IcsStep("ok", rel_arr, clamp(spec_arr))

\* ics_spec, lines 1033-1052: the array itself for pairs, else a
\* TransFuncAtRedshift built with keywords
ics_return(a, spec_arr) ==
    IF a.as_pairs THEN Returned(Val("ndarray", spec_arr), Spectra_empty)
    ELSE Raised(TransFuncAtRedshift_init(
            {"spec_arr", "in_eng", "eng", "rs", "dlnz", "spec_type"}), Spectra_empty)

\* ics_spec(eleckineng, photeng, T, as_pairs, nonrel_tf, rel_tf) as one
\* call: the statements in the order of the body, up to the first that raises
ics_spec_call(a) ==
    LET m == ics_masks(a)
        c == ics_classify(a, m.spec)
        r == ics_rel(a, c.rel, c.spec)
        n == ics_nonrel(a, r.rel, r.spec)
        z == ics_clamp(n.rel, n.spec)
    IN  IF m.outcome # "ok" THEN Raised(m.outcome, Spectra_empty)
        ELSE IF c.outcome # "ok" THEN Raised(c.outcome, Spectra_empty)
        ELSE IF r.outcome # "ok" THEN Raised(r.outcome, Spectra_empty)
        ELSE IF n.outcome # "ok" THEN Raised(n.outcome, Spectra_empty)
        ELSE ics_return(a, z.spec)

-----------------------------------------------------------------------------
(* nonrel_spec called by itself.  The kinetic energy of an electron is the *)
(* fraction eleckineng/me, the photon energies and T are integers of one   *)
(* unit.  beta is compared by its square, which is a fraction:             *)
(* beta^2 = x(x + 2)/(x + 1)^2 for x = eleckineng/me.                      *)

\* the statements of nonrel_spec in the order of its body
\* mutant: the clamp stands before the call of nonrel_spec_series
nonrel_spec_body_clamp_early ==
    <<"masks", "where_diff", "diff", "where_series", "clamp", "series", "return">>

nonrel_spec_body ==
    <<"masks", "where_diff", "diff", "where_series", "series", "clamp", "return">>

\* the statement that follows the statement done in body
next_stmt(body, done) ==
    IF done = "called" THEN body[1]
    ELSE IF \E i \in 1..(Len(body) - 1) : body[i] = done
    THEN body[(CHOOSE i \in 1..(Len(body) - 1) : body[i] = done) + 1]
    ELSE "none"

\* beta**2 = eleckineng/me*(gamma + 1)/gamma**2 as <<numerator, denominator>>
beta_sq(x) == <<x[1] * (x[1] + 2 * x[2]), (x[1] + x[2]) * (x[1] + x[2])>>

\* eta = photeng/T
eta_of(photeng, T) == Norm(photeng, T)

\* beta_small = (beta_mask < 0.01)
beta_small(bsq) == 10000 * bsq[1] < bsq[2]

\* eta_small = (eta_mask < 0.1/beta_mask), for eta and beta above zero
eta_small(eta, bsq) == 100 * eta[1] * eta[1] * bsq[1] < eta[2] * eta[2] * bsq[2]

\* the length of beta_mask < 0.01 and eta_mask < 0.1/beta_mask, and the
\* entries of eleckineng and photeng that entry k of them is made of: paired
\* arrays broadcast if one of them has one entry
mask_size(a) ==
    IF a.as_pairs THEN Max(Len(a.eleckineng), Len(a.photeng)) ELSE ics_size(a)

elec_at(a, k) == IF a.as_pairs /\ Len(a.eleckineng) = 1 THEN 1 ELSE elec_of(a, k)

phot_at(a, k) == IF a.as_pairs /\ Len(a.photeng) = 1 THEN 1 ELSE phot_of(a, k)

\* where_diff = (beta_small & eta_small)
where_diff_of(a) ==
    [k \in 1..mask_size(a) |->
        /\ beta_small(beta_sq(a.eleckineng[elec_at(a, k)]))
        /\ eta_small(eta_of(a.photeng[phot_at(a, k)], a.T),
                     beta_sq(a.eleckineng[elec_at(a, k)]))]

\* nonrel_spec_diff(eleckineng, photeng, T, as_pairs=True): the terms and
\* their errors; d gives, for a photon energy, the magnitude of the term and
\* the error as a fraction of the term (of one, for a term that is zero)
nonrel_spec_diff(eleckineng, photeng, d) ==
    [term |-> [t \in 1..Len(eleckineng) |->
                Elem("nonrel_spec_diff", eleckineng[t], R(photeng[t]), 0, d[photeng[t]].mag)],
     err |-> [t \in 1..Len(eleckineng) |-> d[photeng[t]].err]]

\* nonrel_spec_series(eleckineng, photeng, T, as_pairs=True); s gives the
\* magnitude of the sum for a photon energy
nonrel_spec_series(eleckineng, photeng, s) ==
    [t \in 1..Len(eleckineng) |->
        Elem("nonrel_spec_series", eleckineng[t], R(photeng[t]), 0, s[photeng[t]])]

\* np.abs(np.divide(err_with_diff, spec[where_diff], out=zeros,
\* where=(spec[where_diff] != 0)))
epsrel_of(term, err) ==
    [t \in 1..Len(term) |->
        IF term[t].mag # "zero" THEN <<Abs(err[t][1]), err[t][2]>> ELSE Zero]

\* mutant: where_series = ~where_diff
where_series_no_escalation(where_diff_arr, epsrel_arr) == Not(where_diff_arr)

\* where_series = (~where_diff) | (epsrel > 1e-3)
where_series_of(where_diff_arr, epsrel_arr) ==
    [k \in 1..Len(where_diff_arr) |->
        ~where_diff_arr[k] \/ RLt(<<1, 1000>>, epsrel_arr[k])]

\* the result of a statement of nonrel_spec: the exception raised and the
\* arrays spec and epsrel
NonrelStep(exc, spec_arr, epsrel_arr) ==
    [outcome |-> exc, spec |-> spec_arr, epsrel |-> epsrel_arr]

\* mutant: no check of the lengths
nonrel_masks_unchecked(a) == NonrelStep("ok", <<>>, <<>>)

\* nonrel_spec, lines 633-650
nonrel_masks(a) ==
    IF a.as_pairs /\ Len(a.eleckineng) # Len(a.photeng)
    THEN NonrelStep("TypeError", <<>>, <<>>)
    ELSE NonrelStep("ok", <<>>, <<>>)

\* nonrel_spec, lines 664-669
nonrel_zeros(a) ==
    NonrelStep("ok", [k \in 1..ics_size(a) |-> zero_elem], [k \in 1..ics_size(a) |-> Zero])

\* nonrel_spec, lines 652-656: paired arrays of two lengths, none of them
\* one, do not broadcast
nonrel_where_diff(a) ==
    IF /\ a.as_pairs
       /\ Len(a.eleckineng) # Len(a.photeng)
       /\ Len(a.eleckineng) # 1
       /\ Len(a.photeng) # 1
    THEN [outcome |-> "ValueError", where_diff |-> <<>>]
    ELSE [outcome |-> "ok", where_diff |-> where_diff_of(a)]

\* eleckineng_mask[mask] and photeng_mask[mask] raise IndexError for a mask
\* that has not the length of the array
fits(a) == ~a.as_pairs \/ Len(a.eleckineng) = Len(a.photeng)

\* nonrel_spec, lines 671-684
nonrel_diff(a, where_diff_arr, spec_arr, epsrel_arr, d) ==
    IF ~fits(a) THEN NonrelStep("IndexError", spec_arr, epsrel_arr)
    ELSE NonrelStep("ok",
            assign_masked(spec_arr, where_diff_arr,
                nonrel_spec_diff(Masked(eleckineng_mask(a), where_diff_arr),
                                 Masked(photeng_mask(a), where_diff_arr), d).term),
            assign_masked(epsrel_arr, where_diff_arr,
                epsrel_of(nonrel_spec_diff(Masked(eleckineng_mask(a), where_diff_arr),
                                           Masked(photeng_mask(a), where_diff_arr), d).term,
                          nonrel_spec_diff(Masked(eleckineng_mask(a), where_diff_arr),
                                           Masked(photeng_mask(a), where_diff_arr), d).err)))

\* nonrel_spec, lines 699-703
nonrel_series(a, where_series_arr, spec_arr, epsrel_arr, s) ==
    IF ~fits(a) THEN NonrelStep("IndexError", spec_arr, epsrel_arr)
    ELSE NonrelStep("ok",
            assign_masked(spec_arr, where_series_arr,
                nonrel_spec_series(Masked(eleckineng_mask(a), where_series_arr),
                                   Masked(photeng_mask(a), where_series_arr), s)),
            epsrel_arr)

\* nonrel_spec, line 717
nonrel_clamp(spec_arr, epsrel_arr) == NonrelStep("ok", clamp(spec_arr), epsrel_arr)

\* nonrel_spec, lines 719-737: the array itself for pairs, else a
\* TransFuncAtRedshift built with keywords
nonrel_return(a, spec_arr) ==
    IF a.as_pairs THEN Returned(Val("ndarray", spec_arr), Spectra_empty)
    ELSE Raised(TransFuncAtRedshift_init(
            {"spec_arr", "dlnz", "in_eng", "eng", "with_interp_func"}), Spectra_empty)

-----------------------------------------------------------------------------
(* rel_spec called by itself.  The energies are integers in units of me    *)
(* and T is an integer, so that gamma = eleceng and lowlim is a fraction.  *)

\* the statements of rel_spec in the order of its body
rel_spec_body == <<"limits", "good", "kernel", "clamp", "return">>

\* number of entries of the arrays of rel_spec
rel_size(a) == IF a.as_pairs THEN Len(a.eleceng) ELSE Len(a.eleceng) * Len(a.photeng)

\* np.divide(photeng/eleceng, 1 - photeng/eleceng, out=zeros,
\* where=(1 - photeng/eleceng != 0))
Gamma_eps_q(eleceng, photeng) ==
    IF RSub(One, Norm(photeng, eleceng)) # Zero
    THEN RDiv(Norm(photeng, eleceng), RSub(One, Norm(photeng, eleceng)))
    ELSE Zero

\* B = me/(4*gamma)*Gamma_eps_q and lowlim = B/T
lowlim_of(eleceng, photeng, T) ==
    RDiv(RMul(Norm(1, 4 * eleceng), Gamma_eps_q(eleceng, photeng)), R(T))

\* the result of a statement of rel_spec: the exception raised and the
\* arrays lowlim, good and spec
RelStep(exc, lowlim_arr, good_arr, spec_arr) ==
    [outcome |-> exc, lowlim |-> lowlim_arr, good |-> good_arr, spec |-> spec_arr]

\* rel_spec, lines 766-805
rel_limits(a) ==
    IF a.as_pairs /\ Len(a.eleceng) # Len(a.photeng)
    THEN RelStep("TypeError", <<>>, <<>>, <<>>)
    ELSE RelStep("ok",
            [k \in 1..rel_size(a) |->
                lowlim_of(a.eleceng[elec_of(a, k)], a.photeng[phot_of(a, k)], a.T)],
            <<>>, <<>>)

\* mutant: good = (lowlim >= 0)
good_nonneg(lowlim_arr) == [k \in 1..Len(lowlim_arr) |-> RLe(Zero, lowlim_arr[k])]

\* good = (lowlim > 0)
good_of(lowlim_arr) == [k \in 1..Len(lowlim_arr) |-> RLt(Zero, lowlim_arr[k])]

\* rel_spec, lines 807-818
rel_good(lowlim_arr) ==
    RelStep("ok", lowlim_arr, good_of(lowlim_arr),
            [k \in 1..Len(lowlim_arr) |-> zero_elem])

\* term_1 + term_2 + term_3 + term_4 of the entries given; s gives the
\* magnitude of the sum for a photon energy
rel_terms(eleceng, photeng, s) ==
    [t \in 1..Len(eleceng) |->
        Elem("rel_spec", R(eleceng[t]), R(photeng[t]), 0, s[photeng[t]])]

\* prefac*spec: zero stays zero and the sign is kept
times_prefac(a, spec_arr) ==
    [k \in 1..Len(spec_arr) |->
        Elem("rel_spec", R(a.eleceng[elec_of(a, k)]), R(a.photeng[phot_of(a, k)]), 0,
             spec_arr[k].mag)]

\* rel_spec, lines 820-884
rel_kernel(a, lowlim_arr, good_arr, spec_arr, s) ==
    RelStep("ok", lowlim_arr, good_arr,
        times_prefac(a,
            assign_masked(spec_arr, good_arr,
                rel_terms(Masked([k \in 1..rel_size(a) |-> a.eleceng[elec_of(a, k)]], good_arr),
                          Masked([k \in 1..rel_size(a) |-> a.photeng[phot_of(a, k)]], good_arr),
                          s))))

\* rel_spec, line 887
rel_clamp(lowlim_arr, good_arr, spec_arr) ==
    RelStep("ok", lowlim_arr, good_arr, clamp(spec_arr))

\* rel_spec, lines 889-906: the array itself for pairs, else a
\* TransFuncAtRedshift built with keywords
rel_return(a, spec_arr) ==
    IF a.as_pairs THEN Returned(Val("ndarray", spec_arr), Spectra_empty)
    ELSE Raised(TransFuncAtRedshift_init(
            {"spec_arr", "dlnz", "in_eng", "eng", "with_interp_func"}), Spectra_empty)

-----------------------------------------------------------------------------
(* Inputs *)

Energies == {Pow2(k) : k \in 0..MaxExp}

\* abscissae: the increasing sequences of at least two energies
Axes ==
    {a \in UNION {[1..n -> Energies] : n \in 2..(MaxExp + 1)} : IsIncreasing(a)}

\* arguments of rebin that are not increasing
BadAxes == {<<1, 1>>, <<2, 1>>, <<1, 4, 2>>, <<1, 2, 2>>}

\* the log-spaced abscissa of all energies
FullAxis == [k \in 1..(MaxExp + 1) |-> Pow2(k - 1)]

\* the same without its third entry, which is not log-spaced
GapAxis == [k \in 1..MaxExp |-> IF k <= 2 THEN Pow2(k - 1) ELSE Pow2(k)]

\* abscissae of the constructed Spectra
InAxes == {FullAxis, GapAxis}

\* a coarse abscissa above the others, its two samples three log steps apart
CoarseAxis == <<Pow2(MaxExp + 1), Pow2(MaxExp + 4)>>

\* abscissae to rebin into: every pair of energies, the full abscissa and
\* the coarse one
OutAxes == {a \in Axes : Len(a) = 2 \/ Len(a) = MaxExp + 1} \cup {CoarseAxis}

\* spec_arr of the constructor: spectrum i has all its particles in bin i,
\* with an entry between 1 and MaxAmp
Grid(n) ==
    [i \in 1..n |-> [j \in 1..n |->
        IF j = i THEN R(((i - 1) % MaxAmp) + 1) ELSE Zero]]

NoCall == [op |-> "init", arg |-> <<>>]

\* an abscissa as long as the full one, with other energies
ShiftAxis == [k \in 1..(MaxExp + 1) |-> Pow2(k)]

\* the right-hand operands of the arithmetic operators: Spectra on the same
\* and on other abscissae, of both types, tagged by in_eng or by rs; numbers;
\* 1-D arrays as long as a row or as a column of self; a list
Others ==
    {Val("Spectra", Spectra_init(Grid(Len(e)), e, tag, [i \in 1..Len(e) |-> i], st)) :
        e \in InAxes \cup {ShiftAxis}, tag \in {"in_eng", "rs"}, st \in SpecTypes}
    \cup {Val("int", R(0)), Val("int", R(2)), Val("float", <<1, 2>>)}
    \cup {Val("ndarray", [i \in 1..n |-> R(i - 1)]) : n \in {MaxExp, MaxExp + 1}}
    \cup {Val("list", [i \in 1..MaxExp |-> i])}

ArithOps ==
    {"__add__", "__radd__", "__sub__", "__rsub__",
     "__mul__", "__rmul__", "__truediv__", "__rtruediv__"}

\* longest energy array given to ics_spec
MaxLen == 2

\* electron kinetic energies: gamma = 2, rel_bound, rel_bound + 1, rel_bound + 2
ElecKinEngs == {1, rel_bound - 1, rel_bound, rel_bound + 1}

\* photon energies: below every electron energy, and between the two
\* relativistic ones
PhotEngs == {1, rel_bound + 1}

\* temperatures T, which are the ratios y = T/TCMB(400)
Temps == {1, 2}

EngArrays(values) == UNION {[1..n -> values] : n \in 1..MaxLen}

\* reference tables: the relativistic one ends below 2*(rel_bound + 2) and
\* holds values that fall below 1e-100 when scaled, the non-relativistic one
\* starts above the lowest kinetic energy
RelTables ==
    {NoTable,
     [name |-> "rel_tf", elo |-> rel_bound + 1, ehi |-> 2 * rel_bound + 2,
      plo |-> 1, phi |-> rel_bound + 1, mag |-> "tiny"]}

NonrelTables ==
    {NoTable,
     [name |-> "nonrel_tf", elo |-> rel_bound - 1, ehi |-> rel_bound,
      plo |-> 1, phi |-> rel_bound + 1, mag |-> "pos"]}

\* the calls of ics_spec
IcsArgs ==
    [eleckineng : EngArrays(ElecKinEngs), photeng : EngArrays(PhotEngs),
     T : Temps, as_pairs : BOOLEAN, nonrel_tf : NonrelTables, rel_tf : RelTables]

NoArgs ==
    [eleckineng |-> <<>>, photeng |-> <<>>, T |-> 1, as_pairs |-> FALSE,
     nonrel_tf |-> NoTable, rel_tf |-> NoTable]

\* eleckineng/me of nonrel_spec: beta just below and just above 0.01
NonrelKinEngs == {<<1, 19999>>, <<1, 19998>>}

\* photon energies of nonrel_spec: for the slower electron and T = 1, eta
\* just below and above 0.1/beta
NonrelPhotEngs == {10, 11}

\* the calls of nonrel_spec
NonrelArgs ==
    [eleckineng : EngArrays(NonrelKinEngs), photeng : EngArrays(NonrelPhotEngs),
     T : Temps, as_pairs : BOOLEAN]

\* what nonrel_spec_diff yields at a photon energy: the magnitude of the
\* term and the error as a fraction of it
DiffResults == [mag : {"pos", "tiny", "zero"}, err : {<<1, 1000>>, <<-1, 500>>}]

\* what the sums of nonrel_spec_series and of rel_spec yield
KernelMags == {"pos", "tiny", "neg"}

\* the photon energies of a call
PhotSet(a) == {a.photeng[j] : j \in 1..Len(a.photeng)}

\* electron and photon energies of rel_spec: photons below, at and above
\* the energy of an electron
RelElecEngs == {2, 3}

RelPhotEngs == {1, 2, 3}

\* the calls of rel_spec
RelArgs ==
    [eleceng : EngArrays(RelElecEngs), photeng : EngArrays(RelPhotEngs),
     T : Temps, as_pairs : BOOLEAN]

-----------------------------------------------------------------------------
(* State *)

VARIABLES
    \* the attributes of the Spectra object the calls are made on
    eng, grid_vals, spec_type, in_eng, rs, N_underflow, eng_underflow,
    \* the object before the last call, the call, the exception it raised,
    \* whether it warned, the number of calls, the value returned
    pre, call, outcome, warned, nOps, result,
    \* ics_spec: position, arguments, the array rel and the array spec
    pc, args, rel, spec,
    \* the function called and the statements it has executed
    fn, log,
    \* nonrel_spec: the arrays where_diff, epsrel and where_series
    where_diff, epsrel, where_series,
    \* rel_spec: the arrays lowlim and good
    lowlim, good,
    \* get_pppc_spec: the array log10x
    log10x

selfVars == <<eng, grid_vals, spec_type, in_eng, rs, N_underflow, eng_underflow>>

callVars == <<pre, call, warned, nOps>>

nonrelVars == <<where_diff, epsrel, where_series>>

relVars == <<lowlim, good>>

pppcVars == <<log10x>>

icsVars == <<pc, args, rel, spec, fn, log, where_diff, epsrel, where_series,
            lowlim, good, log10x>>

vars == <<eng, grid_vals, spec_type, in_eng, rs, N_underflow, eng_underflow,
          pre, call, outcome, warned, nOps, result, pc, args, rel, spec,
          fn, log, where_diff, epsrel, where_series, lowlim, good, log10x>>

\* the Spectra object the calls are made on
Self ==
    [eng |-> eng, grid_vals |-> grid_vals, spec_type |-> spec_type,
     in_eng |-> in_eng, rs |-> rs,
     N_underflow |-> N_underflow, eng_underflow |-> eng_underflow]

SetSelf(S) ==
    /\ eng' = S.eng
    /\ grid_vals' = S.grid_vals
    /\ spec_type' = S.spec_type
    /\ in_eng' = S.in_eng
    /\ rs' = S.rs
    /\ N_underflow' = S.N_underflow
    /\ eng_underflow' = S.eng_underflow

IsSelf(S) ==
    /\ eng = S.eng
    /\ grid_vals = S.grid_vals
    /\ spec_type = S.spec_type
    /\ in_eng = S.in_eng
    /\ rs = S.rs
    /\ N_underflow = S.N_underflow
    /\ eng_underflow = S.eng_underflow

\* no call of ics_spec is under way
IcsIdle ==
    /\ pc = "idle" /\ args = NoArgs /\ rel = <<>> /\ spec = <<>>
    /\ fn = "none" /\ log = <<>>
    /\ where_diff = <<>> /\ epsrel = <<>> /\ where_series = <<>>
    /\ lowlim = <<>> /\ good = <<>>
    /\ log10x = <<>>

\* a Spectra built from an ndarray, no call made on it yet
Init ==
    /\ \E e \in InAxes, st \in SpecTypes :
        \E S \in {Spectra_init(Grid(Len(e)), e, "in_eng", [i \in 1..Len(e) |-> i], st)} :
            /\ IsSelf(S)
            /\ pre = S
    /\ call = NoCall
    /\ outcome = "ok"
    /\ warned = FALSE
    /\ nOps = 0
    /\ result = None
    /\ IcsIdle

\* self.rebin(out_eng)
Rebin ==
    /\ nOps < MaxOps
    /\ outcome = "ok"
    /\ \E out_eng \in OutAxes \cup BadAxes :
        \E r \in {rebin(Self, out_eng)} :
            /\ SetSelf(r.self)
            /\ pre' = Self
            /\ call' = [op |-> "rebin", arg |-> out_eng]
            /\ outcome' = r.outcome
            /\ warned' = r.warned
            /\ nOps' = IF r.outcome = "ok" THEN nOps + 1 ELSE nOps
    /\ UNCHANGED <<result, icsVars>>

\* self.switch_spec_type()
SwitchSpecType ==
    /\ nOps < MaxOps
    /\ outcome = "ok"
    /\ \E r \in {switch_spec_type(Self)} : SetSelf(r)
    /\ pre' = Self
    /\ call' = [op |-> "switch_spec_type", arg |-> <<>>]
    /\ outcome' = "ok"
    /\ warned' = FALSE
    /\ nOps' = nOps + 1
    /\ UNCHANGED <<result, icsVars>>

Next == Rebin \/ SwitchSpecType

Spec == Init /\ [][Next]_vars

\* one arithmetic method called on a newly built Spectra
Arith(op) ==
    /\ call = NoCall
    /\ pc = "idle"
    /\ \E other \in Others :
        \E r \in {arith(op, Self, other)} :
            /\ SetSelf(r.self)
            /\ pre' = Self
            /\ call' = [op |-> op, arg |-> other]
            /\ outcome' = r.outcome
            /\ result' = r.value
    /\ warned' = FALSE
    /\ nOps' = nOps + 1
    /\ UNCHANGED icsVars

\* self + other
Add == Arith("__add__")

\* other + self
Radd == Arith("__radd__")

\* self - other
Sub == Arith("__sub__")

\* other - self
Rsub == Arith("__rsub__")

\* self * other
Mul == Arith("__mul__")

\* other * self
Rmul == Arith("__rmul__")

\* self / other
Truediv == Arith("__truediv__")

\* other / self
Rtruediv == Arith("__rtruediv__")

NextArith == Add \/ Radd \/ Sub \/ Rsub \/ Mul \/ Rmul \/ Truediv \/ Rtruediv

SpecArith == Init /\ [][NextArith]_vars

\* a call of the function f with one of the arguments in argset, about to
\* execute its first statement
Called(f, argset) ==
    /\ IsSelf(Spectra_empty)
    /\ pre = Spectra_empty
    /\ call = NoCall
    /\ outcome = "ok"
    /\ warned = FALSE
    /\ nOps = 0
    /\ result = None
    /\ pc = "called"
    /\ args \in argset
    /\ rel = <<>>
    /\ spec = <<>>
    /\ fn = f
    /\ log = <<>>
    /\ where_diff = <<>> /\ epsrel = <<>> /\ where_series = <<>>
    /\ lowlim = <<>> /\ good = <<>>
    /\ log10x = <<>>

InitICS == Called("ics_spec", IcsArgs)

\* one step of ics_spec, the statements stmt, which leads to position to:
\* an exception ends the call
IcsTake(stmt, to, r) ==
    /\ pc' = IF r.outcome = "ok" THEN to ELSE "raised"
    /\ outcome' = r.outcome
    /\ rel' = r.rel
    /\ spec' = r.spec
    /\ log' = Append(log, stmt)
    /\ UNCHANGED <<selfVars, callVars, result, args, fn, nonrelVars, relVars, pppcVars>>

IcsMasks ==
    /\ fn = "ics_spec"
    /\ pc = "called"
    /\ \E r \in {ics_masks(args)} : IcsTake("masks", "masked", r)

IcsClassify ==
    /\ fn = "ics_spec"
    /\ pc = "masked"
    /\ \E r \in {ics_classify(args, spec)} : IcsTake("classify", "classified", r)

IcsRel ==
    /\ fn = "ics_spec"
    /\ pc = "classified"
    /\ \E r \in {ics_rel(args, rel, spec)} : IcsTake("rel", "rel_done", r)

IcsNonrel ==
    /\ fn = "ics_spec"
    /\ pc = "rel_done"
    /\ \E r \in {ics_nonrel(args, rel, spec)} : IcsTake("nonrel", "dispatched", r)

IcsClamp ==
    /\ fn = "ics_spec"
    /\ pc = "dispatched"
    /\ \E r \in {ics_clamp(rel, spec)} : IcsTake("clamp", "clamped", r)

\* the last statements of a function: the array is returned, or handed to
\* the constructor of the container
Return(r) ==
    /\ pc' = IF r.outcome = "ok" THEN "returned" ELSE "raised"
    /\ outcome' = r.outcome
    /\ result' = r.value
    /\ log' = Append(log, IF args.as_pairs THEN "return" ELSE "package")
    /\ UNCHANGED <<selfVars, callVars, args, rel, spec, fn, nonrelVars, relVars, pppcVars>>

IcsReturn ==
    /\ fn = "ics_spec"
    /\ pc = "clamped"
    /\ \E r \in {ics_return(args, spec)} : Return(r)

NextICS == IcsMasks \/ IcsClassify \/ IcsRel \/ IcsNonrel \/ IcsClamp \/ IcsReturn

SpecICS == InitICS /\ [][NextICS]_vars

InitNonrel == Called("nonrel_spec", NonrelArgs)

\* the statement stmt of nonrel_spec is the next one
NonrelAt(stmt) == fn = "nonrel_spec" /\ next_stmt(nonrel_spec_body, pc) = stmt

\* one step of nonrel_spec: an exception ends the call
NonrelTake(stmt, r) ==
    /\ pc' = IF r.outcome = "ok" THEN stmt ELSE "raised"
    /\ outcome' = r.outcome
    /\ spec' = r.spec
    /\ epsrel' = r.epsrel
    /\ log' = Append(log, stmt)
    /\ UNCHANGED <<selfVars, callVars, result, args, fn, rel, relVars, pppcVars>>

NonrelMasks ==
    /\ NonrelAt("masks")
    /\ \E r \in {nonrel_masks(args)} : NonrelTake("masks", r)
    /\ UNCHANGED <<where_diff, where_series>>

NonrelWhereDiff ==
    /\ NonrelAt("where_diff")
    /\ \E m \in {nonrel_where_diff(args)} :
        /\ where_diff' = m.where_diff
        /\ IF m.outcome = "ok" THEN NonrelTake("where_diff", nonrel_zeros(args))
           ELSE NonrelTake("where_diff", NonrelStep(m.outcome, spec, epsrel))
    /\ UNCHANGED where_series

NonrelDiff ==
    /\ NonrelAt("diff")
    /\ \E d \in [PhotSet(args) -> DiffResults] :
        \E r \in {nonrel_diff(args, where_diff, spec, epsrel, d)} : NonrelTake("diff", r)
    /\ UNCHANGED <<where_diff, where_series>>

NonrelWhereSeries ==
    /\ NonrelAt("where_series")
    /\ where_series' = where_series_of(where_diff, epsrel)
    /\ NonrelTake("where_series", NonrelStep("ok", spec, epsrel))
    /\ UNCHANGED where_diff

NonrelSeries ==
    /\ NonrelAt("series")
    /\ \E s \in [PhotSet(args) -> KernelMags] :
        \E r \in {nonrel_series(args, where_series, spec, epsrel, s)} : NonrelTake("series", r)
    /\ UNCHANGED <<where_diff, where_series>>

NonrelClamp ==
    /\ NonrelAt("clamp")
    /\ \E r \in {nonrel_clamp(spec, epsrel)} : NonrelTake("clamp", r)
    /\ UNCHANGED <<where_diff, where_series>>

NonrelReturn ==
    /\ NonrelAt("return")
    /\ \E r \in {nonrel_return(args, spec)} : Return(r)

NextNonrel ==
    \/ NonrelMasks \/ NonrelWhereDiff \/ NonrelDiff \/ NonrelWhereSeries
    \/ NonrelSeries \/ NonrelClamp \/ NonrelReturn

SpecNonrel == InitNonrel /\ [][NextNonrel]_vars

InitRel == Called("rel_spec", RelArgs)

\* the statement stmt of rel_spec is the next one
RelAt(stmt) == fn = "rel_spec" /\ next_stmt(rel_spec_body, pc) = stmt

\* one step of rel_spec: an exception ends the call
RelTake(stmt, r) ==
    /\ pc' = IF r.outcome = "ok" THEN stmt ELSE "raised"
    /\ outcome' = r.outcome
    /\ lowlim' = r.lowlim
    /\ good' = r.good
    /\ spec' = r.spec
    /\ log' = Append(log, stmt)
    /\ UNCHANGED <<selfVars, callVars, result, args, fn, rel, nonrelVars, pppcVars>>

RelLimits ==
    /\ RelAt("limits")
    /\ \E r \in {rel_limits(args)} : RelTake("limits", r)

RelGood ==
    /\ RelAt("good")
    /\ \E r \in {rel_good(lowlim)} : RelTake("good", r)

RelKernel ==
    /\ RelAt("kernel")
    /\ \E s \in [PhotSet(args) -> KernelMags] :
        \E r \in {rel_kernel(args, lowlim, good, spec, s)} : RelTake("kernel", r)

RelClamp ==
    /\ RelAt("clamp")
    /\ \E r \in {rel_clamp(lowlim, good, spec)} : RelTake("clamp", r)

RelReturn ==
    /\ RelAt("return")
    /\ \E r \in {rel_return(args, spec)} : Return(r)

NextRel == RelLimits \/ RelGood \/ RelKernel \/ RelClamp \/ RelReturn

SpecRel == InitRel /\ [][NextRel]_vars

\* a call of any of the three functions
InitEval == InitICS \/ InitNonrel \/ InitRel

NextEval == NextICS \/ NextNonrel \/ NextRel

SpecEval == InitEval /\ [][NextEval]_vars

-----------------------------------------------------------------------------
(* Totals of one member spectrum *)

\* particles of member i: its bins plus its own underflow
TotalCount(S, i) == RAdd(RSum(totN_bin(S)[i]), S.N_underflow[i])

\* energy of member i: its bins plus its own underflow
TotalEnergy(S, i) == RAdd(RSum(toteng_bin(S)[i]), S.eng_underflow[i])

Last(a) == a[Len(a)]

\* particles / energy of member i held by the bins of S that lie above the
\* last sample of out_eng
SumAbove(e, top, row) ==
    RSum([j \in 1..Len(e) |-> IF e[j] > top THEN row[j] ELSE Zero])

OverflowCount(S, out_eng, i) == SumAbove(S.eng, Last(out_eng), totN_bin(S)[i])

OverflowEnergy(S, out_eng, i) == SumAbove(S.eng, Last(out_eng), toteng_bin(S)[i])

Rebinned == call.op = "rebin" /\ outcome = "ok"

-----------------------------------------------------------------------------
(* Claims *)

\* C1: rebin conserves the particle number of every member spectrum:
\* total before = total after + the particles of the bins above the new
\* abscissa, in both modes and after any sequence of calls.
C1_NumberConserved ==
    Rebinned =>
        \A i \in 1..Rows(pre) :
            TotalCount(pre, i) =
                RAdd(TotalCount(Self, i), OverflowCount(pre, call.arg, i))

\* a second rebin, in dNdE mode: one member already has underflow and keeps
\* particles in range, another one loses particles above the new abscissa
C1_Witness ==
    /\ Rebinned /\ nOps = 2 /\ spec_type = "dNdE"
    /\ \E i \in 1..Rows(pre) :
        /\ RLt(Zero, pre.N_underflow[i])
        /\ RLt(Zero, RSum(totN_bin(Self)[i]))
    /\ \E i \in 1..Rows(pre) : RLt(Zero, OverflowCount(pre, call.arg, i))

\* C2: rebin conserves the energy of every member spectrum: total before =
\* total after + the energy of the bins above the new abscissa; a sample
\* split between two bins gives them exactly its own energy.
C2_EnergyConserved ==
    Rebinned =>
        \A i \in 1..Rows(pre) :
            TotalEnergy(pre, i) =
                RAdd(TotalEnergy(Self, i), OverflowEnergy(pre, call.arg, i))

\* a member whose particles end up in two bins of the new abscissa
C2_Witness ==
    /\ Rebinned
    /\ \E i \in 1..Rows(pre) :
        /\ Cardinality({j \in 1..Len(pre.eng) : pre.grid_vals[i][j] # Zero}) = 1
        /\ Cardinality({k \in 1..Len(eng) : grid_vals[i][k] # Zero}) = 2
        /\ N_underflow[i] = Zero

\* C3: rebin raises when the new abscissa is not strictly increasing, and
\* then leaves abscissa, entries, type and both underflows as they were.
C3_RejectsUnordered ==
    (/\ call.op = "rebin"
     /\ \E i \in 1..(Len(call.arg) - 1) : call.arg[i + 1] <= call.arg[i])
        => (outcome = "TypeError" /\ Self = pre)

\* an abscissa with two equal entries, given to a Spectra with underflow
C3_Witness ==
    /\ call.op = "rebin" /\ call.arg = <<1, 1>> /\ outcome = "TypeError"
    /\ \E i \in 1..Len(N_underflow) : RLt(Zero, N_underflow[i])

HasMass(S, i) == \E j \in 1..Len(S.eng) : S.grid_vals[i][j] # Zero

\* every log step of abscissa b is wider than every log step of abscissa a
Coarser(a, b) ==
    \A i \in 1..(Len(a) - 1), k \in 1..(Len(b) - 1) :
        Log2(b[k + 1]) - Log2(b[k]) > Log2(a[i + 1]) - Log2(a[i])

\* the energy e lies below the lower boundary of the first bin of out_eng
BelowFirstBin(e, out_eng) == 2 * Log2(e) < get_bin_bound(LogOf(out_eng), 0)

\* the energy e lies at or below out_eng[0]^2 / out_eng[1], the sample of the
\* bin that rebin puts in front of out_eng
AtOrBelowAddedBin(e, out_eng) == e * out_eng[2] <= out_eng[1] * out_eng[1]

\* the last call moved all particles and all energy of member i from its
\* bins into its underflow
FullyUnderflowed(i) ==
    /\ N_underflow[i] = RAdd(pre.N_underflow[i], RSum(totN_bin(pre)[i]))
    /\ eng_underflow[i] = RAdd(pre.eng_underflow[i], RSum(toteng_bin(pre)[i]))
    /\ \A k \in 1..Len(eng) : grid_vals[i][k] = Zero

\* C5 as stated: a spectrum whose samples lie below the first bin of a
\* coarser new abscissa has its full count and energy moved into the
\* underflow, and nothing of it appears in a bin of the new abscissa.
C5_BelowFirstBinUnderflows ==
    (Rebinned /\ Coarser(pre.eng, call.arg)) =>
        \A i \in 1..Rows(pre) :
            (/\ HasMass(pre, i)
             /\ \A j \in 1..Len(pre.eng) :
                    pre.grid_vals[i][j] # Zero => BelowFirstBin(pre.eng[j], call.arg))
                => FullyUnderflowed(i)

\* C5 amended: a spectrum whose samples lie at or below the added bin
\* (E <= out_eng[0]^2 / out_eng[1]) has its full count and energy moved into
\* the underflow, and nothing of it appears in a bin of the new abscissa.
C5_BelowAddedBinUnderflows ==
    Rebinned =>
        \A i \in 1..Rows(pre) :
            (/\ HasMass(pre, i)
             /\ \A j \in 1..Len(pre.eng) :
                    pre.grid_vals[i][j] # Zero => AtOrBelowAddedBin(pre.eng[j], call.arg))
                => FullyUnderflowed(i)

\* a member with energy 2 per particle, rebinned into a coarser abscissa
\* whose added bin lies at or above its sample
C5_Witness ==
    /\ Rebinned /\ Coarser(pre.eng, call.arg)
    /\ \E i \in 1..Rows(pre) :
        /\ HasMass(pre, i)
        /\ \A j \in 1..Len(pre.eng) :
              pre.grid_vals[i][j] # Zero =>
                  (pre.eng[j] > 1 /\ AtOrBelowAddedBin(pre.eng[j], call.arg))
        /\ FullyUnderflowed(i)
        /\ RLt(Zero, N_underflow[i])

\* C6: rebinning into the abscissa the Spectra already has changes nothing
\* (entries, type, underflows), so a rebin into A followed by a rebin into A
\* gives what one rebin into A gives.
C6_SameAbscissaIdentity ==
    /\ (Rebinned /\ call.arg = pre.eng) => Self = pre
    /\ Rebinned => rebin(Self, eng) = [self |-> Self, outcome |-> "ok", warned |-> FALSE]

\* the abscissa [1, 2, 4, 8] rebinned into itself, with a member that has all
\* its particles in bin index 1
C6_Witness ==
    /\ Rebinned /\ call.arg = <<1, 2, 4, 8>> /\ pre.eng = <<1, 2, 4, 8>>
    /\ \E i \in 1..Rows(pre) :
        \A j \in 1..4 : (pre.grid_vals[i][j] # Zero) <=> (j = 2)

\* C7: switch_spec_type flips the type, leaves abscissa, tags and underflows
\* alone, and applied a second time gives back the entries it started from.
C7_SwitchIsInvolution ==
    call.op = "switch_spec_type" =>
        /\ spec_type # pre.spec_type
        /\ spec_type \in SpecTypes
        /\ eng = pre.eng /\ in_eng = pre.in_eng /\ rs = pre.rs
        /\ N_underflow = pre.N_underflow /\ eng_underflow = pre.eng_underflow
        /\ switch_spec_type(Self) = pre

\* a switch to dNdE of a rebinned Spectra whose entries are not all integers
C7_Witness ==
    /\ call.op = "switch_spec_type" /\ spec_type = "dNdE" /\ nOps = 2
    /\ \E i \in 1..Rows(pre), j \in 1..Len(eng) : pre.grid_vals[i][j][2] > 1
    /\ \E i \in 1..Rows(pre) : RLt(Zero, N_underflow[i])

\* the last call was an arithmetic method given another Spectra
ArithOnSpectra == call.op \in ArithOps /\ call.arg.kind = "Spectra"

\* C8: each of +, -, *, / and of their reflected methods, given a Spectra on
\* another abscissa, raises and returns nothing; self is left as it was.
C8_AxisMismatchRaises ==
    (ArithOnSpectra /\ call.arg.val.eng # pre.eng) =>
        /\ outcome \in {"TypeError", "NameError"}
        /\ result.kind = "None"
        /\ Self = pre

\* a reflected division by a Spectra of the same type and shape whose
\* abscissa holds other energies
C8_Witness ==
    /\ ArithOnSpectra /\ call.op = "__rtruediv__"
    /\ call.arg.val.eng # pre.eng
    /\ Len(call.arg.val.eng) = Len(pre.eng)
    /\ call.arg.val.spec_type = pre.spec_type
    /\ outcome = "TypeError"

\* C9 as stated: a product or quotient of two Spectra of different spec_type
\* fails with an error.
C9_ModeMismatchRaises ==
    (/\ ArithOnSpectra
     /\ call.op \in {"__mul__", "__rmul__", "__truediv__", "__rtruediv__"}
     /\ call.arg.val.spec_type # pre.spec_type)
        => outcome # "ok"

\* C10: in grid mode an element is relativistic iff gamma > 20, every
\* element is in exactly one of rel and ~rel, and once both regimes have
\* been dispatched its entry of spec comes from the evaluator of its regime.
C10_RegimeByThreshold ==
    /\ pc \in {"classified", "rel_done", "dispatched", "clamped"} =>
        \A k \in 1..ics_size(args) :
            /\ rel[k] <=> (args.eleckineng[elec_of(args, k)] + 1 > 20)
            /\ Not(rel)[k] <=> (args.eleckineng[elec_of(args, k)] + 1 <= 20)
    /\ pc \in {"dispatched", "clamped"} =>
        \A k \in 1..ics_size(args) :
            IF args.eleckineng[elec_of(args, k)] + 1 > 20
            THEN spec[k].by = (IF args.rel_tf = NoTable THEN "rel_spec" ELSE "rel_tf")
            ELSE spec[k].by =
                    (IF args.nonrel_tf = NoTable THEN "nonrel_spec" ELSE "nonrel_tf")

\* a grid of two electrons, gamma = 20 and gamma = 21, and two photons, both
\* regimes computed by their kernels: the row of gamma = 20 comes from
\* nonrel_spec, the row of gamma = 21 from rel_spec
C10_Witness ==
    /\ pc = "clamped" /\ ~args.as_pairs
    /\ args.eleckineng = <<19, 20>> /\ Len(args.photeng) = 2
    /\ args.rel_tf = NoTable /\ args.nonrel_tf = NoTable
    /\ spec[1].by = "nonrel_spec" /\ spec[2].by = "nonrel_spec"
    /\ spec[3].by = "rel_spec" /\ spec[4].by = "rel_spec"

\* beta < 0.01 and photeng/T < 0.1/beta for beta^2 = x(x + 2)/(x + 1)^2 and
\* x = eleckineng/me = n/d, both sides squared
Eligible(x, photeng, T) ==
    /\ 10000 * x[1] * (x[1] + 2 * x[2]) < (x[1] + x[2]) * (x[1] + x[2])
    /\ 100 * photeng * photeng * x[1] * (x[1] + 2 * x[2])
            < T * T * (x[1] + x[2]) * (x[1] + x[2])

\* entry k of the arrays of nonrel_spec keeps the value of nonrel_spec_diff
KeepsExpansion(k) ==
    /\ Eligible(args.eleckineng[elec_of(args, k)], args.photeng[phot_of(args, k)], args.T)
    /\ RLe(epsrel[k], <<1, 1000>>)

\* C11: in nonrel_spec an element is expansion-eligible (where_diff) iff
\* beta < 0.01 and photeng/T < 0.1/beta; once the series has been
\* dispatched, the value of an element is the one of nonrel_spec_diff iff
\* the element is eligible and its relative error is at most 1e-3, and the
\* one of nonrel_spec_series otherwise, so every value comes from exactly
\* one of the two and none from a quadrature; no statement between the
\* classification and the clamp raises.
C11_ExpansionOrSeries ==
    fn = "nonrel_spec" =>
        /\ pc \in {"where_diff", "diff", "where_series", "series", "clamp", "returned"} =>
            /\ outcome = "ok"
            /\ \A k \in 1..ics_size(args) :
                where_diff[k] <=>
                    Eligible(args.eleckineng[elec_of(args, k)],
                             args.photeng[phot_of(args, k)], args.T)
        /\ pc \in {"series", "clamp", "returned"} =>
            \A k \in 1..ics_size(args) :
                /\ spec[k].by \in {"nonrel_spec_diff", "nonrel_spec_series"}
                /\ spec[k].by = "nonrel_spec_diff" <=> KeepsExpansion(k)
                /\ spec[k].by = "nonrel_spec_series" <=> ~KeepsExpansion(k)
        /\ pc = "raised" => Last(log) \in {"masks", "package"}

\* a call has kept an expansion value, escalated an eligible element to the
\* series and computed an element that is not eligible by the series
C11_Witness ==
    /\ fn = "nonrel_spec"
    /\ pc = "clamp"
    /\ \E k \in 1..ics_size(args) : spec[k].by = "nonrel_spec_diff"
    /\ \E k \in 1..ics_size(args) :
        where_diff[k] /\ RLt(<<1, 1000>>, epsrel[k]) /\ spec[k].by = "nonrel_spec_series"
    /\ \E k \in 1..ics_size(args) : ~where_diff[k] /\ spec[k].by = "nonrel_spec_series"

\* C12: in rel_spec an element whose lower limit lowlim = B/T is not above
\* zero, as it is for every photon energy that is the electron energy or
\* more, is zero in the output from the dispatch of the integrals on, and the
\* call goes on without an exception: only the check of the lengths and the
\* construction of the container raise.
C12_ForbiddenIsZero ==
    fn = "rel_spec" =>
        /\ pc \in {"kernel", "clamp", "returned"} =>
            /\ outcome = "ok"
            /\ \A k \in 1..rel_size(args) :
                /\ RLe(lowlim[k], Zero) => spec[k].mag = "zero"
                /\ args.photeng[phot_of(args, k)] >= args.eleceng[elec_of(args, k)]
                    => RLe(lowlim[k], Zero) /\ spec[k].mag = "zero"
        /\ pc = "returned" =>
            \A k \in 1..rel_size(args) :
                args.photeng[phot_of(args, k)] >= args.eleceng[elec_of(args, k)]
                    => result.val[k].mag = "zero"
        /\ pc = "raised" => Last(log) \in {"limits", "package"}

\* a call has clamped an array with a photon at the electron energy, one
\* above it and one below it, whose value is not zero
C12_Witness ==
    /\ fn = "rel_spec"
    /\ pc = "clamp"
    /\ \E k \in 1..rel_size(args) :
        /\ args.photeng[phot_of(args, k)] = args.eleceng[elec_of(args, k)]
        /\ lowlim[k] = Zero
    /\ \E k \in 1..rel_size(args) :
        /\ args.photeng[phot_of(args, k)] > args.eleceng[elec_of(args, k)]
        /\ RLt(lowlim[k], Zero)
    /\ \E k \in 1..rel_size(args) :
        /\ args.photeng[phot_of(args, k)] < args.eleceng[elec_of(args, k)]
        /\ spec[k].mag = "pos"

\* the array spec has passed the last clamp of the function called
Clamped ==
    \/ fn = "ics_spec" /\ pc = "clamped"
    \/ fn \in {"nonrel_spec", "rel_spec"} /\ pc = "clamp"
    \/ pc \in {"returned", "raised"} /\ log # <<>> /\ Last(log) \in {"return", "package"}

\* C13: the values that ics_spec, nonrel_spec and rel_spec return, and the
\* values they hand to the return statement in either mode, computed by a
\* kernel or read from a reference table, are zero or at least 1e-100: none
\* is negative and none lies between 0 and 1e-100.
C13_ZeroFloor ==
    /\ Clamped => \A k \in 1..Len(spec) : spec[k].mag \in {"zero", "pos"}
    /\ pc = "returned" =>
        /\ result.kind = "ndarray"
        /\ result.val = spec
        /\ \A k \in 1..Len(result.val) : result.val[k].mag \in {"zero", "pos"}

\* rel_spec has returned an array with a value that the integrals gave
\* below 1e-100 and with one they gave above
C13_Witness ==
    /\ fn = "rel_spec"
    /\ pc = "returned"
    /\ \E k \in 1..Len(result.val) : good[k] /\ result.val[k].mag = "zero"
    /\ \E k \in 1..Len(result.val) : good[k] /\ result.val[k].mag = "pos"

\* the statements that classify the elements, and the ones that dispatch
\* the kernels or the tables, by function
Classification == {"classify", "where_diff", "good"}

Dispatch(f) ==
    CASE f = "ics_spec" -> {"rel", "nonrel"}
      [] f = "nonrel_spec" -> {"diff", "series"}
      [] f = "rel_spec" -> {"kernel"}
      [] OTHER -> {}

\* the statement s has been executed
Done(s) == \E i \in 1..Len(log) : log[i] = s

\* the mask of the function called has one entry per element
MaskComplete ==
    IF fn = "ics_spec" THEN Len(rel) = ics_size(args) ELSE Len(where_diff) = ics_size(args)

\* C14: in a call of ics_spec or nonrel_spec no element has a value before
\* the mask of the regimes (rel, where_diff) is computed, the mask has an
\* entry for every element before the first kernel or table is dispatched,
\* every dispatch, the series for the escalated elements too, is done when
\* the clamp is applied, and no dispatch follows a clamp.
C14_ClassifyDispatchClamp ==
    fn \in {"ics_spec", "nonrel_spec"} =>
        /\ \A i, j \in 1..Len(log) :
            i < j =>
                /\ ~(log[i] \in Dispatch(fn) /\ log[j] \in Classification)
                /\ ~(log[i] = "clamp" /\ log[j] \in Dispatch(fn))
        /\ (\E s \in Dispatch(fn) : Done(s)) =>
            (\E c \in Classification : Done(c)) /\ MaskComplete
        /\ Done("clamp") => \A s \in Dispatch(fn) : Done(s)
        /\ ~(\E c \in Classification : Done(c)) =>
            \A k \in 1..Len(spec) : spec[k].by = "zeros"

\* nonrel_spec has returned an array with an element that it escalated from
\* the expansion to the series
C14_Witness ==
    /\ fn = "nonrel_spec"
    /\ pc = "returned"
    /\ log = <<"masks", "where_diff", "diff", "where_series", "series", "clamp", "return">>
    /\ \E k \in 1..Len(spec) : where_diff[k] /\ where_series[k]

\* C15: the clamp is applied only after the container is built: on no path
\* of ics_spec, nonrel_spec or rel_spec is an array first clamped and then
\* handed to the construction of the container.
C15_ClampAfterPackaging ==
    \A i, j \in 1..Len(log) : i < j => ~(log[i] = "clamp" /\ log[j] = "package")

\* the call is one for pairs with arrays of two lengths
LengthsDiffer ==
    /\ args.as_pairs
    /\ Len(args.photeng) #
        (IF fn = "rel_spec" THEN Len(args.eleceng) ELSE Len(args.eleckineng))

\* C16: a call of ics_spec, nonrel_spec or rel_spec for pairs with arrays
\* of two lengths ends with a TypeError in its first statements: no mask is
\* computed, no kernel or table is dispatched and nothing is returned.
C16_PairedLengthChecked ==
    (fn \in {"ics_spec", "nonrel_spec", "rel_spec"} /\ LengthsDiffer) =>
        /\ pc \in {"called", "raised"}
        /\ pc = "raised" => outcome = "TypeError" /\ Len(log) = 1
        /\ \A s \in Classification \cup Dispatch(fn) : ~Done(s)
        /\ spec = <<>>
        /\ result.kind = "None"

\* nonrel_spec has raised for two electrons paired with one photon
C16_Witness ==
    /\ fn = "nonrel_spec"
    /\ LengthsDiffer
    /\ Len(args.eleckineng) = 2
    /\ pc = "raised"
    /\ outcome = "TypeError"

\* the call is one of ics_spec without reference tables
NoTables == fn = "ics_spec" /\ args.rel_tf = NoTable /\ args.nonrel_tf = NoTable

\* C17: ics_spec called for pairs with arrays of one length returns an
\* array with one value per pair, and called for the grid it returns a
\* collection with one spectrum per electron energy over the photon
\* energies; neither call raises.
C17_ReturnsArrayOrCollection ==
    (NoTables /\ ~LengthsDiffer) =>
        /\ pc # "raised"
        /\ pc = "returned" =>
            IF args.as_pairs
            THEN result.kind = "ndarray" /\ Len(result.val) = Len(args.eleckineng)
            ELSE result.kind = "TransFuncAtRedshift"

\* C18: the value of ics_spec at the grid coordinate (i, j) is the value
\* that ics_spec returns for the pair (eleckineng[i], photeng[j]) at the same
\* temperature.
C18_PairedEqualsGrid ==
    (NoTables /\ ~args.as_pairs /\ pc \in {"returned", "raised"}) =>
        /\ pc = "returned"
        /\ \A i \in 1..Len(args.eleckineng), j \in 1..Len(args.photeng) :
            \E pair \in {ics_spec_call([args EXCEPT !.as_pairs = TRUE,
                                                    !.eleckineng = <<args.eleckineng[i]>>,
                                                    !.photeng = <<args.photeng[j]>>])} :
                /\ pair.outcome = "ok"
                /\ pair.value.kind = "ndarray"
                /\ pair.value.val[1] = spec[(i - 1) * Len(args.photeng) + j]

\* the temperature ratio y = T/TCMB(400)
y_of(a) == a.T

\* C19: after the two dispatches of a call of ics_spec for the grid, an
\* element with gamma > 20 holds, if rel_tf is given, the value of rel_tf at
\* (y*eleceng, y*photeng) times y^4 and else the value of rel_spec, not
\* scaled; an element with gamma <= 20 holds, if nonrel_tf is given, the
\* value of nonrel_tf at (eleckineng, photeng/y) times y^2 and else the
\* value of nonrel_spec, not scaled.
C19_TablesScaled ==
    (fn = "ics_spec" /\ pc \in {"dispatched", "clamped"}) =>
        \A k \in 1..ics_size(args) :
            \E e \in {args.eleckineng[elec_of(args, k)]}, p \in {args.photeng[phot_of(args, k)]} :
                IF e + 1 > 20
                THEN IF args.rel_tf # NoTable
                     THEN /\ spec[k].by = "rel_tf"
                          /\ spec[k].ypow = 4
                          /\ spec[k].e = R(y_of(args) * (e + 1))
                          /\ spec[k].p = R(y_of(args) * p)
                     ELSE /\ spec[k].by = "rel_spec"
                          /\ spec[k].ypow = 0
                          /\ spec[k].e = R(e + 1)
                          /\ spec[k].p = R(p)
                ELSE IF args.nonrel_tf # NoTable
                     THEN /\ spec[k].by = "nonrel_tf"
                          /\ spec[k].ypow = 2
                          /\ spec[k].e = R(e)
                          /\ spec[k].p = Norm(p, y_of(args))
                     ELSE /\ spec[k].by = "nonrel_spec"
                          /\ spec[k].ypow = 0
                          /\ spec[k].e = R(e)
                          /\ spec[k].p = R(p)

\* a call at twice the temperature of the tables with rel_tf only has
\* dispatched fast and slow electrons
C19_Witness ==
    /\ fn = "ics_spec"
    /\ pc = "dispatched"
    /\ args.T = 2
    /\ args.rel_tf # NoTable
    /\ args.nonrel_tf = NoTable
    /\ \E k \in 1..ics_size(args) : spec[k].by = "rel_tf" /\ spec[k].ypow = 4
    /\ \E k \in 1..ics_size(args) : spec[k].by = "nonrel_spec"

\* the energy e lies outside lo..hi
Outside(e, lo, hi) == RLt(e, R(lo)) \/ RLt(R(hi), e)

\* the energies at which a call of ics_spec reads rel_tf and nonrel_tf
RelQueries(a) ==
    {R(y_of(a) * (a.eleckineng[i] + 1)) : i \in {n \in 1..Len(a.eleckineng) : a.eleckineng[n] + 1 > 20}}

NonrelQueries(a) ==
    {R(a.eleckineng[i]) : i \in {n \in 1..Len(a.eleckineng) : a.eleckineng[n] + 1 <= 20}}

-----------------------------------------------------------------------------
(* Spectra.totN and Spectra.toteng without bounds *)

\* Spectra.totN(): np.dot(dNdlogE, log_bin_width) + np.sum(self.N_underflow)
totN(S) ==
    [i \in 1..Rows(S) |-> RAdd(RSum(totN_bin(S)[i]), RSum(S.N_underflow))]

\* Spectra.toteng(): np.dot(dNdlogE, eng*log_bin_width)
\*                   + np.sum(self.eng_underflow)
toteng(S) ==
    [i \in 1..Rows(S) |-> RAdd(RSum(toteng_bin(S)[i]), RSum(S.eng_underflow))]

TotalOps == {"totN", "toteng"}

\* a call that reads the totals of self and returns them
Total(op, v) ==
    /\ call.op \notin TotalOps
    /\ outcome = "ok"
    /\ pc = "idle"
    /\ result' = Val("ndarray", v)
    /\ pre' = Self
    /\ call' = [op |-> op, arg |-> <<>>]
    /\ UNCHANGED <<selfVars, outcome, warned, nOps, icsVars>>

\* self.totN()
TotN == Total("totN", totN(Self))

\* self.toteng()
TotEng == Total("toteng", toteng(Self))

\* self.rebin(out_eng) before the totals are taken
RebinFirst == call.op \notin TotalOps /\ Rebin

\* np.ceil(x).astype(int)
Ceil(p) == -((-p[1]) \div p[2])

Min(a, b) == IF a <= b THEN a ELSE b

\* a[k] for an index k as Python counts it, in an array of n entries: the
\* position counted from 1, outside 1..n if the index is out of range
py_index(k, n) == IF k < 0 THEN k + n + 1 ELSE k + 1

\* a bound of a slice in an array of n entries
py_clip(k, n) == IF k < 0 THEN Max(k + n, 0) ELSE Min(k, n)

\* the positions, counted from 1, of a[lo:hi] in an array of n entries
py_slice(lo, hi, n) == {j \in 1..n : py_clip(lo, n) < j /\ j <= py_clip(hi, n)}

\* np.diff(bound_arr) >= 0 everywhere
nondecreasing(b) == \A k \in 1..(Len(b) - 1) : RLe(b[k], b[k + 1])

\* the loop body is skipped for these bounds
skipped(n, low, upp) == RLt(R(n), low) \/ RLt(upp, Zero)

\* low and upp fall into one bin
one_bin(low, upp) == Floor(low) = Floor(upp) \/ Ceil(low) = Ceil(upp)

\* the bins that the loop body reads by index, as Python counts them
bins_read(n, low, upp) ==
    IF one_bin(low, upp) THEN {Floor(low)}
    ELSE {Floor(low)} \cup (IF Floor(upp) < n THEN {Floor(upp)} ELSE {})

\* sum of the entries of row at the positions in a set
RECURSIVE SumAt(_, _)
SumAt(row, J) ==
    IF J = {} THEN Zero
    ELSE LET j == CHOOSE x \in J : TRUE IN RAdd(row[j], SumAt(row, J \ {j}))

\* one pass of the loop body for one spectrum; Nb is dNdlogE*log_bin_width
\* of the spectrum: N_full_bins + N_part_bins
N_between(Nb, low, upp) ==
    LET n == Len(Nb)
        N_full_bins == SumAt(Nb, py_slice(Ceil(low), Floor(upp), n))
        N_part_bins ==
            IF one_bin(low, upp)
            THEN RMul(Nb[py_index(Floor(low), n)], RSub(upp, low))
            ELSE RAdd(RMul(Nb[py_index(Floor(low), n)], RSub(R(Ceil(low)), low)),
                      IF Floor(upp) < n
                      THEN RMul(Nb[py_index(Floor(upp), n)], RSub(upp, R(Floor(upp))))
                      ELSE Zero)
    IN  RAdd(N_full_bins, N_part_bins)

\* Spectra.totN('bin', bound_arr)
totN_bounds(S, bound_arr) ==
    LET n == Len(S.eng)
        m == Len(bound_arr)
        \* the pairs (low, upp) the loop takes from (bound_arr[:-1], bound_arr[1:])
        pairs == <<SubSeq(bound_arr, 1, m - 1), SubSeq(bound_arr, 2, m)>>
    IN  IF ~nondecreasing(bound_arr) THEN Raised("TypeError", S)
        ELSE IF RLt(R(n), bound_arr[1]) \/ RLt(bound_arr[m], Zero)
        THEN Returned(Val("ndarray",
                [k \in 1..(m - 1) |-> [i \in 1..Len(S.in_eng) |-> Zero]]), S)
        ELSE IF m - 1 # 2 THEN Raised("ValueError", S)
        ELSE IF \E k \in 1..2 :
                    /\ ~skipped(n, pairs[k][1], pairs[k][2])
                    /\ \E j \in bins_read(n, pairs[k][1], pairs[k][2]) :
                        py_index(j, n) \notin 1..n
        THEN Raised("IndexError", S)
        ELSE Returned(Val("ndarray",
                [k \in 1..2 |-> [i \in 1..Len(S.in_eng) |->
                    IF skipped(n, pairs[k][1], pairs[k][2]) THEN Zero
                    ELSE N_between(totN_bin(S)[i], pairs[k][1], pairs[k][2])]]), S)

\* bin boundaries asked for: below, at and above the ends of the abscissa,
\* whole and half
BinBounds(n) == {R(-1), R(0), <<1, 2>>, R(1), R(2), R(n), R(n + 1)}

\* bound_arr of two to four entries
BoundArrs(n) == UNION {[1..m -> BinBounds(n)] : m \in 2..4}

\* self.totN('bin', bound_arr) on a newly built Spectra
TotNBin ==
    /\ call = NoCall
    /\ pc = "idle"
    /\ \E bound_arr \in BoundArrs(Len(eng)) :
        \E r \in {totN_bounds(Self, bound_arr)} :
            /\ result' = r.value
            /\ outcome' = r.outcome
            /\ call' = [op |-> "totN_bin", arg |-> bound_arr]
    /\ pre' = Self
    /\ UNCHANGED <<selfVars, warned, nOps, icsVars>>

NextTot == RebinFirst \/ TotN \/ TotEng \/ TotNBin

SpecTot == Init /\ [][NextTot]_vars

\* C21 as stated: the total number and the total energy reported for a
\* spectrum of the collection are those of its own bins plus its own
\* underflow; no other spectrum's underflow enters.
C21_OwnUnderflowOnly ==
    /\ call.op = "totN" =>
        \A i \in 1..Rows(Self) : result.val[i] = TotalCount(Self, i)
    /\ call.op = "toteng" =>
        \A i \in 1..Rows(Self) : result.val[i] = TotalEnergy(Self, i)

-----------------------------------------------------------------------------
(* Spectra as a container of Spectrum objects: construction from a list,  *)
(* append and item assignment                                              *)

\* a Spectrum object: abscissa, entries (_data), tags, type and underflow
Spectrum_init(e, data, ie, r, st) ==
    [eng |-> e, data |-> data, in_eng |-> ie, rs |-> r, spec_type |-> st,
     underflow |-> [N |-> Zero, eng |-> Zero]]

\* Spectrum.N: the entries as numbers of particles per bin
Spectrum_N(sp) ==
    IF sp.spec_type = "dNdE"
    THEN [j \in 1..Len(sp.eng) |->
            RMul(RMul(sp.data[j], R(sp.eng[j])),
                 R(get_log_bin_width(LogOf(sp.eng))[j]))]
    ELSE sp.data

\* Spectrum.dNdE: the entries as dN/dE
Spectrum_dNdE(sp) ==
    IF sp.spec_type = "N"
    THEN [j \in 1..Len(sp.eng) |->
            RDiv(sp.data[j], RMul(R(sp.eng[j]),
                 R(get_log_bin_width(LogOf(sp.eng))[j])))]
    ELSE sp.data

\* utils.arrays_equal(ndarray_list): every array equals the next one
arrays_equal(ndarray_list) ==
    \A k \in 1..(Len(ndarray_list) - 1) :
        array_equal(ndarray_list[k], ndarray_list[k + 1])

\* Spectra(spec_arr) for a list of Spectrum objects
Spectra_from_list(spec_arr) ==
    IF spec_arr = <<>> THEN Returned(Val("Spectra", Spectra_empty), Spectra_empty)
    ELSE IF Cardinality({spec_arr[k].spec_type : k \in 1..Len(spec_arr)}) # 1
    THEN Raised("TypeError", Spectra_empty)
    ELSE IF ~arrays_equal([k \in 1..Len(spec_arr) |-> spec_arr[k].eng])
    THEN Raised("TypeError", Spectra_empty)
    ELSE \* the object built, as value and as the new self
         LET S == [eng           |-> spec_arr[1].eng,
                   grid_vals     |-> [k \in 1..Len(spec_arr) |-> spec_arr[k].data],
                   spec_type     |-> spec_arr[1].spec_type,
                   in_eng        |-> [k \in 1..Len(spec_arr) |-> spec_arr[k].in_eng],
                   rs            |-> [k \in 1..Len(spec_arr) |-> spec_arr[k].rs],
                   N_underflow   |-> [k \in 1..Len(spec_arr) |->
                                        spec_arr[k].underflow.N],
                   eng_underflow |-> [k \in 1..Len(spec_arr) |->
                                        spec_arr[k].underflow.eng]]
         IN  Returned(Val("Spectra", S), S)

\* Spectra.append(self, spec)
Spectra_append(S, sp) ==
    IF Len(S.eng) # 0 /\ ~array_equal(S.eng, sp.eng) THEN Raised("TypeError", S)
    ELSE IF S.spec_type # sp.spec_type THEN Raised("TypeError", S)
    ELSE Returned(None,
            [S EXCEPT
                !.in_eng = Append(@, sp.in_eng),
                !.rs = Append(@, sp.rs),
                !.N_underflow = Append(@, sp.underflow.N),
                !.eng_underflow = Append(@, sp.underflow.eng),
                !.eng = IF Len(S.eng) = 0 THEN sp.eng ELSE @,
                !.grid_vals = IF Len(S.eng) = 0 THEN <<sp.data>>
                              ELSE Append(@, sp.data)])

\* mutant: the entries of the Spectrum are stored as they are
Spectra_setitem_raw(S, key, value) ==
    IF ~array_equal(value.eng, S.eng) THEN Raised("TypeError", S)
    ELSE IF key >= Len(S.in_eng) THEN Raised("IndexError", S)
    ELSE Returned(None,
            [S EXCEPT
                !.in_eng[key + 1] = value.in_eng,
                !.rs[key + 1] = value.rs,
                !.grid_vals[key + 1] = value.data,
                !.N_underflow[key + 1] = value.underflow.N,
                !.eng_underflow[key + 1] = value.underflow.eng])

\* Spectra.__setitem__(self, key, value) for an int key counted from 0
Spectra_setitem(S, key, value) ==
    IF ~array_equal(value.eng, S.eng) THEN Raised("TypeError", S)
    ELSE IF key >= Len(S.in_eng) THEN Raised("IndexError", S)
    ELSE Returned(None,
            [S EXCEPT
                !.in_eng[key + 1] = value.in_eng,
                !.rs[key + 1] = value.rs,
                !.grid_vals[key + 1] =
                    IF S.spec_type = "N" THEN Spectrum_N(value)
                    ELSE IF S.spec_type = "dNdE" THEN Spectrum_dNdE(value)
                    ELSE @,
                !.N_underflow[key + 1] = value.underflow.N,
                !.eng_underflow[key + 1] = value.underflow.eng])

\* Spectra(spec_arr, eng, in_eng, rs, spec_type) for an ndarray spec_arr; an
\* argument is None or an ndarray.  value names the attributes among
\* _in_eng, _rs, _N_underflow, _eng_underflow that no statement has assigned
\* (they are empty in self)
Spectra_from_array(spec_arr, e, ie, r, st) ==
    IF e.kind = "None" THEN Raised("TypeError", Spectra_empty)
    ELSE IF ie.kind = "None" /\ r.kind = "None" THEN Raised("TypeError", Spectra_empty)
    ELSE IF ie.kind = "None"
    THEN Returned(Val("unset", {}), Spectra_init(spec_arr, e.val, "rs", r.val, st))
    ELSE IF r.kind = "None"
    THEN Returned(Val("unset", {}), Spectra_init(spec_arr, e.val, "in_eng", ie.val, st))
    ELSE Returned(Val("unset", {"_in_eng", "_rs", "_N_underflow", "_eng_underflow"}),
            [Spectra_empty EXCEPT
                !.grid_vals = spec_arr, !.spec_type = st, !.eng = e.val])

\* the attributes of self that were never assigned
Unassigned == IF result.kind = "unset" THEN result.val ELSE {}

\* a method that reads the tags and underflows of self: the first read of an
\* attribute that was never assigned raises AttributeError
reads_attrs(unset, r) ==
    IF unset # {} /\ r.outcome \in {"ok", "IndexError"}
    THEN Raised("AttributeError", r.self)
    ELSE r

\* the Spectrum objects given to the container: on two abscissae of the
\* same length, of both types, with one or two particles per unit in a bin
Spectrums ==
    {Spectrum_init(e, [j \in 1..Len(e) |-> R(IF j = 2 THEN a ELSE 0)], a, -1, st) :
        e \in {FullAxis, ShiftAxis}, a \in 1..MaxAmp, st \in SpecTypes}

\* the arguments eng, in_eng and rs of the constructor for n spectra
ArrayArgs(n) ==
    [eng    : {None} \cup {Val("ndarray", e) : e \in {a \in InAxes : Len(a) = n}},
     in_eng : {None, Val("ndarray", [i \in 1..n |-> i])},
     rs     : {None, Val("ndarray", [i \in 1..n |-> 3])}]

\* lists of at most two Spectrum objects
SpectrumLists == UNION {[1..n -> Spectrums] : n \in 0..2}

\* no Spectra built yet
InitColl ==
    /\ IsSelf(Spectra_empty)
    /\ pre = Spectra_empty
    /\ call = NoCall
    /\ outcome = "ok"
    /\ warned = FALSE
    /\ nOps = 0
    /\ result = None
    /\ IcsIdle

\* what a method call on self leaves behind
Method(op, arg, r) ==
    /\ SetSelf(r.self)
    /\ pre' = Self
    /\ call' = [op |-> op, arg |-> arg]
    /\ outcome' = r.outcome
    /\ result' = r.value
    /\ warned' = FALSE
    /\ nOps' = nOps + 1
    /\ UNCHANGED icsVars

\* self = Spectra(spec_arr)
NewFromList ==
    /\ call = NoCall
    /\ \E spec_arr \in SpectrumLists :
        \E r \in {Spectra_from_list(spec_arr)} : Method("Spectra", spec_arr, r)

\* self = Spectra(spec_arr, eng=, in_eng=, rs=, spec_type=)
NewFromArray ==
    /\ call = NoCall
    /\ \E n \in {Len(e) : e \in InAxes}, st \in SpecTypes :
        \E a \in ArrayArgs(n) :
            \E r \in {Spectra_from_array(Grid(n), a.eng, a.in_eng, a.rs, st)} :
                Method("Spectra_array", a, r)

\* self.append(spec)
AppendSpectrum ==
    /\ call # NoCall /\ outcome = "ok" /\ nOps < MaxOps
    /\ \E sp \in Spectrums :
        \E r \in {reads_attrs(Unassigned, Spectra_append(Self, sp))} :
            Method("append", sp, r)

\* self[key] = value
SetItem ==
    /\ call # NoCall /\ outcome = "ok" /\ nOps < MaxOps
    /\ \E key \in 0..Len(in_eng), value \in Spectrums :
        \E r \in {reads_attrs(Unassigned, Spectra_setitem(Self, key, value))} :
            Method("__setitem__", [key |-> key, value |-> value], r)

NextColl == NewFromList \/ NewFromArray \/ AppendSpectrum \/ SetItem

SpecColl == InitColl /\ [][NextColl]_vars

\* the Spectrum objects of a list do not all have one abscissa and one type
Mixed(spec_arr) ==
    \E k, l \in 1..Len(spec_arr) :
        spec_arr[k].eng # spec_arr[l].eng \/ spec_arr[k].spec_type # spec_arr[l].spec_type

\* C22: the members of a Spectra have its one abscissa and its one type:
\* a list of Spectrum objects that differ in abscissa or type is refused,
\* an append of a Spectrum with another abscissa or type raises and leaves
\* the collection as it was, an item assignment of a Spectrum with another
\* abscissa raises, and one of a Spectrum of the other type stores the
\* entries converted, so that the row holds the Spectrum's particle numbers.
C22_SharedAxisAndMode ==
    /\ call.op = "Spectra" =>
        /\ Mixed(call.arg) => outcome = "TypeError" /\ Self = Spectra_empty
        /\ (outcome = "ok" /\ call.arg # <<>>) =>
            \A k \in 1..Len(call.arg) :
                /\ call.arg[k].eng = eng
                /\ call.arg[k].spec_type = spec_type
                /\ grid_vals[k] = call.arg[k].data
    /\ (call.op = "append" /\ Len(pre.eng) # 0) =>
        /\ (call.arg.eng # pre.eng \/ call.arg.spec_type # pre.spec_type) =>
            outcome = "TypeError" /\ Self = pre
        /\ outcome = "ok" =>
            /\ eng = pre.eng /\ spec_type = pre.spec_type
            /\ grid_vals = Append(pre.grid_vals, call.arg.data)
    /\ call.op = "__setitem__" =>
        /\ call.arg.value.eng # pre.eng => outcome = "TypeError" /\ Self = pre
        /\ outcome = "ok" =>
            /\ eng = pre.eng /\ spec_type = pre.spec_type
            /\ totN_bin(Self)[call.arg.key + 1] = Spectrum_N(call.arg.value)

\* a Spectrum of type dNdE assigned to an item of a Spectra of type N
C22_Witness ==
    /\ call.op = "__setitem__" /\ outcome = "ok"
    /\ spec_type = "N" /\ call.arg.value.spec_type = "dNdE"
    /\ grid_vals[call.arg.key + 1] # call.arg.value.data

\* every entry of a tag array is the placeholder -1
Placeholder(a) == \A k \in 1..Len(a) : a[k] = -1

\* C23 as stated: a Spectra built from an ndarray, with eng and at least one
\* of in_eng and rs given, has exactly one real tag array and the other one
\* filled with -1, and both underflow arrays, all four as long as the number
\* of spectra, the underflows zero; also when in_eng and rs are both given.
C23_OneTagReal ==
    (/\ call.op = "Spectra_array"
     /\ call.arg.eng # None
     /\ call.arg.in_eng # None \/ call.arg.rs # None) =>
        /\ outcome = "ok"
        /\ result.val = {}
        /\ Len(in_eng) = Rows(Self) /\ Len(rs) = Rows(Self)
        /\ Len(N_underflow) = Rows(Self) /\ Len(eng_underflow) = Rows(Self)
        /\ Placeholder(in_eng) # Placeholder(rs)
        /\ \A k \in 1..Rows(Self) : N_underflow[k] = Zero /\ eng_underflow[k] = Zero

\* the entries of the right-hand operand of an addition, as a 2-D array
OperandGrid(other) ==
    IF other.kind = "Spectra" THEN other.val.grid_vals ELSE <<other.val>>

\* the last call added a Spectra on the same abscissa and of the same type,
\* or an ndarray as long as a row of self, to self
Addable ==
    /\ call.op \in {"__add__", "__radd__"}
    /\ \/ /\ call.arg.kind = "Spectra"
          /\ call.arg.val.eng = pre.eng
          /\ call.arg.val.spec_type = pre.spec_type
       \/ /\ call.arg.kind = "ndarray"
          /\ Len(call.arg.val) = Len(pre.eng)

\* C24 as stated: __add__ and __radd__ return a new Spectra holding the
\* element-wise sum, for a Spectra and for an ndarray operand, and leave
\* self as it was.
C24_AddReturnsSum ==
    Addable =>
        /\ outcome = "ok"
        /\ result.kind = "Spectra"
        /\ Self = pre
        /\ result.val.grid_vals = grid_add(pre.grid_vals, OperandGrid(call.arg))

\* the larger and the smaller of two rationals
RMax(p, q) == IF RLe(p, q) THEN q ELSE p

RMin(p, q) == IF RLe(p, q) THEN p ELSE q

\* histogram integral of the per-bin numbers Nb from boundary a to boundary
\* b: every bin weighted by the fraction of it that lies in [a, b]
RECURSIVE Hist(_, _, _, _)
Hist(Nb, a, b, j) ==
    IF j = 0 THEN Zero
    ELSE RAdd(Hist(Nb, a, b, j - 1),
              RMul(Nb[j], RMax(Zero, RSub(RMin(b, R(j)), RMax(a, R(j - 1))))))

\* C25 as stated: for a non-decreasing bound_arr of n >= 2 entries
\* totN('bin', bound_arr) returns n-1 rows, row k holding for every spectrum
\* the histogram integral from bound_arr[k] to bound_arr[k+1] (only the part
\* inside the abscissa counts); a bound_arr with a decreasing step raises.
C25_HistogramIntegral ==
    call.op = "totN_bin" =>
        IF nondecreasing(call.arg)
        THEN /\ outcome = "ok"
             /\ Len(result.val) = Len(call.arg) - 1
             /\ \A k \in 1..(Len(call.arg) - 1), i \in 1..Rows(Self) :
                    result.val[k][i] =
                        Hist(totN_bin(Self)[i], call.arg[k], call.arg[k + 1], Len(eng))
        ELSE outcome = "TypeError"

-----------------------------------------------------------------------------
(* Spectra.at_rs: interpolation of the collection at new redshifts *)

\* np.all(np.diff(rs)): no two neighbours of rs are equal
all_diff(r) == \A k \in 1..(Len(r) - 1) : r[k + 1] - r[k] # 0

\* the condition under which at_rs raises: not np.all(np.diff(rs)) > 0 and
\* not np.all(np.diff(rs)) < 0, where not applies to the whole comparison
\* of the truth value np.all(...) with 0
at_rs_refuses(r) ==
    LET truth == IF all_diff(r) THEN 1 ELSE 0
    IN  ~(truth > 0) /\ ~(truth < 0)

\* interp1d(np.log(rs), grid_vals, axis=0)(np.log(q)) for distinct rs, which
\* interp1d sorts: linear in log rs between the two neighbours of q
interp_row(S, q) ==
    LET lo == CHOOSE k \in 1..Len(S.rs) :
                /\ S.rs[k] <= q
                /\ \A l \in 1..Len(S.rs) : S.rs[l] <= q => S.rs[l] <= S.rs[k]
        hi == CHOOSE k \in 1..Len(S.rs) :
                /\ S.rs[k] >= q
                /\ \A l \in 1..Len(S.rs) : S.rs[l] >= q => S.rs[l] >= S.rs[k]
        t  == IF lo = hi THEN Zero
              ELSE <<Log2(q) - Log2(S.rs[lo]), Log2(S.rs[hi]) - Log2(S.rs[lo])>>
    IN  [j \in 1..Len(S.grid_vals[lo]) |->
            RAdd(S.grid_vals[lo][j],
                 RMul(t, RSub(S.grid_vals[hi][j], S.grid_vals[lo][j])))]

\* q lies within the redshifts of S
in_rs_range(S, q) ==
    /\ \E k \in 1..Len(S.rs) : S.rs[k] <= q
    /\ \E k \in 1..Len(S.rs) : S.rs[k] >= q

\* Spectra.at_rs(self, new_rs) with interp_type = 'val' and the default
\* bounds_err, for which interp1d raises outside the range of rs
at_rs(S, new_rs) ==
    IF at_rs_refuses(S.rs) THEN Raised("TypeError", S)
    ELSE IF \E k \in 1..Len(new_rs) : ~in_rs_range(S, new_rs[k])
    THEN Raised("ValueError", S)
    ELSE Returned(Val("Spectra",
            [Spectra_empty EXCEPT
                !.eng = S.eng,
                !.in_eng = [k \in 1..Len(new_rs) |-> -1],
                !.rs = new_rs,
                !.grid_vals = [k \in 1..Len(new_rs) |-> interp_row(S, new_rs[k])],
                !.spec_type = S.spec_type]), S)

\* redshifts of a collection of n spectra: increasing, decreasing, with the
\* last two exchanged (up, then down), and with the first one repeated
RsArrays(n) ==
    {[k \in 1..n |-> Pow2(k - 1)],
     [k \in 1..n |-> Pow2(n - k)],
     [k \in 1..n |-> IF k = n - 1 THEN Pow2(n - 1)
                     ELSE IF k = n THEN Pow2(n - 2) ELSE Pow2(k - 1)],
     [k \in 1..n |-> IF k = 1 THEN 1 ELSE Pow2(k - 2)]}

\* redshifts asked for: one or two of 1, 2, 4 and one above all of rs
NewRs(n) == UNION {[1..m -> {1, 2, 4, Pow2(n)}] : m \in 1..2}

\* a Spectra built from an ndarray and tagged by redshift or by in_eng
InitRs ==
    /\ \E e \in InAxes, st \in SpecTypes :
        \E S \in {Spectra_init(Grid(Len(e)), e, "rs", r, st) : r \in RsArrays(Len(e))}
                \cup {Spectra_init(Grid(Len(e)), e, "in_eng", [i \in 1..Len(e) |-> i], st)} :
            /\ IsSelf(S)
            /\ pre = S
    /\ call = NoCall
    /\ outcome = "ok"
    /\ warned = FALSE
    /\ nOps = 0
    /\ result = None
    /\ IcsIdle

\* self.at_rs(new_rs)
AtRs ==
    /\ call = NoCall
    /\ \E new_rs \in NewRs(Len(rs)) :
        \E r \in {at_rs(Self, new_rs)} : Method("at_rs", new_rs, r)

NextRs == AtRs

SpecRs == InitRs /\ [][NextRs]_vars

\* a sequence that is strictly increasing or strictly decreasing
StrictlyMonotonic(r) ==
    \/ \A k \in 1..(Len(r) - 1) : r[k] < r[k + 1]
    \/ \A k \in 1..(Len(r) - 1) : r[k] > r[k + 1]

\* C26 as stated: at_rs raises, and returns no collection, unless the
\* redshifts of the collection are strictly increasing or strictly
\* decreasing.
C26_MonotonicOrRaises ==
    (call.op = "at_rs" /\ ~StrictlyMonotonic(pre.rs)) =>
        outcome # "ok" /\ result.kind = "None"

\* the per-spectrum arrays of S are as long as S has rows
ParallelLengths(S) ==
    /\ Len(S.in_eng) = Rows(S)
    /\ Len(S.rs) = Rows(S)
    /\ Len(S.N_underflow) = Rows(S)
    /\ Len(S.eng_underflow) = Rows(S)

\* C27 as stated: in every Spectra, self and the Spectra returned by an
\* arithmetic method alike, the rows of grid_vals, in_eng, rs, N_underflow
\* and eng_underflow are equally many.
C27_ParallelArrays ==
    /\ ParallelLengths(Self)
    /\ result.kind = "Spectra" => ParallelLengths(result.val)

\* the last call multiplied self by a number, a list or a 1-D ndarray
TimesFactor ==
    /\ call.op \in {"__mul__", "__rmul__"}
    /\ call.arg.kind \in {"int", "float", "list", "ndarray"}

\* the method of the product with the operands exchanged
Reflected(op) == IF op = "__mul__" THEN "__rmul__" ELSE "__mul__"

\* C28 as stated: self * f and f * self, for f a number, a list or a 1-D
\* ndarray, both return a Spectra with the abscissa, tags and type of self
\* and with the same entries, and leave self as it was.
C28_FactorCommutes ==
    TimesFactor =>
        /\ outcome = "ok"
        /\ result.kind = "Spectra"
        /\ Self = pre
        /\ result.val.eng = pre.eng
        /\ result.val.in_eng = pre.in_eng /\ result.val.rs = pre.rs
        /\ result.val.spec_type = pre.spec_type
        /\ \E r \in {arith(Reflected(call.op), pre, call.arg)} :
            /\ r.outcome = "ok"
            /\ r.value.kind = "Spectra"
            /\ r.value.val.grid_vals = result.val.grid_vals

-----------------------------------------------------------------------------
(* utilities: the series of log(1+b) - log(1+a) and of Li2(b) - Li2(a) *)

\* b**k
RECURSIVE IPow(_, _)
IPow(b, k) == IF k = 0 THEN 1 ELSE b * IPow(b, k - 1)

\* the terms sign*(b**k - a**k)/denom[k], k = 1 .. n, added from the left
RECURSIVE series_sum(_, _, _, _, _)
series_sum(b, a, sign, denom, n) ==
    IF n = 0 THEN Zero
    ELSE RAdd(series_sum(b, a, sign, denom, n - 1),
              Norm(sign * (IPow(b, n) - IPow(a, n)), denom[n]))

\* the divisors written in log_series_diff: 1, 2, ..., 11
log_series_denom == [k \in 1..11 |-> k]

\* the divisors written in spence_series_diff: 1, 2**2, ..., 10**2, 11**1
spence_series_denom == [k \in 1..11 |-> IF k = 11 THEN IPow(11, 1) ELSE IPow(k, 2)]

\* the result of an elementwise function of two arrays of one length
elementwise(f(_, _), b, a) == [i \in 1..Len(b) |-> f(b[i], a[i])]

\* utilities.log_series_diff(b, a) for one entry: every term is subtracted
log_series_diff_at(b, a) == series_sum(b, a, -1, log_series_denom, 11)

\* utilities.spence_series_diff(b, a) for one entry: every term is added
spence_series_diff_at(b, a) == series_sum(b, a, 1, spence_series_denom, 11)

\* utilities.log_series_diff(b, a)
log_series_diff(b, a) == elementwise(log_series_diff_at, b, a)

\* utilities.spence_series_diff(b, a)
spence_series_diff(b, a) == elementwise(spence_series_diff_at, b, a)

\* values of the entries of b and a
SeriesValues == {-1, 0, 1}

\* pairs of arrays b, a of one length
SeriesArgs ==
    UNION {[b : [1..n -> SeriesValues], a : [1..n -> SeriesValues]] : n \in 1..MaxLen}

\* a call of a function of the module utilities
Utility(f, arg, v) ==
    /\ call = NoCall
    /\ pc = "idle"
    /\ call' = [op |-> f, arg |-> arg]
    /\ result' = Val("ndarray", v)
    /\ nOps' = nOps + 1
    /\ UNCHANGED <<selfVars, pre, outcome, warned, icsVars>>

\* log_series_diff(b, a)
LogSeriesDiff ==
    \E x \in SeriesArgs : Utility("log_series_diff", x, log_series_diff(x.b, x.a))

\* spence_series_diff(b, a)
SpenceSeriesDiff ==
    \E x \in SeriesArgs : Utility("spence_series_diff", x, spence_series_diff(x.b, x.a))

NextSeries == LogSeriesDiff \/ SpenceSeriesDiff

SpecSeries == InitColl /\ [][NextSeries]_vars

\* sum over k = 1 .. n of (-1)^(k+1) (b^k - a^k)/k
RECURSIVE LogTaylor(_, _, _)
LogTaylor(b, a, n) ==
    IF n = 0 THEN Zero
    ELSE RAdd(LogTaylor(b, a, n - 1),
              Norm((IF n % 2 = 1 THEN 1 ELSE -1) * (IPow(b, n) - IPow(a, n)), n))

\* sum over k = 1 .. n of (b^k - a^k)/k^2
RECURSIVE Li2Taylor(_, _, _)
Li2Taylor(b, a, n) ==
    IF n = 0 THEN Zero
    ELSE RAdd(Li2Taylor(b, a, n - 1), Norm(IPow(b, n) - IPow(a, n), n * n))

\* C29 as stated: log_series_diff(b, a) is the Taylor series of
\* log(1+b) - log(1+a) up to order 11, with alternating signs, and
\* spence_series_diff(b, a) that of Li2(b) - Li2(a) up to order 11, the
\* k-th term divided by k^2.
C29_TaylorSeries ==
    /\ call.op = "log_series_diff" =>
        \A i \in 1..Len(call.arg.b) :
            result.val[i] = LogTaylor(call.arg.b[i], call.arg.a[i], 11)
    /\ call.op = "spence_series_diff" =>
        \A i \in 1..Len(call.arg.b) :
            result.val[i] = Li2Taylor(call.arg.b[i], call.arg.a[i], 11)

-----------------------------------------------------------------------------
(* pppc.get_pppc_spec: the refinement of log10x = np.log10(eng/_mDM) before *)
(* the interpolation.  The 50,000 samples the code asks for are scaled      *)
(* down to MinInRange, and its limit of 500,000 on the size with them.      *)

\* number of samples wanted in the relevant range (50000 in the code)
MinInRange == 4

\* the size from which log10x is not refined (500000 in the code)
size_limit == 10 * MinInRange

\* (log10x < 1) & (log10x > 1e-9) for one entry
in_relevant_range(x) ==
    /\ RLt(x, One)
    /\ x[1] > 0 /\ x[2] \div x[1] < 1000000000

\* log10x[(log10x < 1) & (log10x > 1e-9)].size
in_range_size(x) == Cardinality({k \in 1..Len(x) : in_relevant_range(x[k])})

\* np.interp(np.arange(0, log10x.size-0.5, 0.5), np.arange(log10x.size),
\* log10x): the entries of log10x and the midpoints of neighbours
doubled(x) ==
    [k \in 1..(2 * Len(x) - 1) |->
        IF k % 2 = 1 THEN x[(k + 1) \div 2]
        ELSE RMul(<<1, 2>>, RAdd(x[k \div 2], x[k \div 2 + 1]))]

\* values of log10(eng/_mDM): below, in and above the relevant range
Log10xValues == {R(-1), R(0), <<1, 4>>, <<1, 2>>, R(1), R(2)}

\* log10x of an abscissa of one to three increasing energies
Log10xArrays ==
    {x \in UNION {[1..n -> Log10xValues] : n \in 1..3} :
        \A k \in 1..(Len(x) - 1) : RLt(x[k], x[k + 1])}

\* get_pppc_spec called, log10x computed
InitPppc ==
    /\ IsSelf(Spectra_empty)
    /\ pre = Spectra_empty
    /\ call = NoCall
    /\ outcome = "ok"
    /\ warned = FALSE
    /\ nOps = 0
    /\ result = None
    /\ pc = "called"
    /\ args = NoArgs
    /\ rel = <<>> /\ spec = <<>>
    /\ fn = "get_pppc_spec"
    /\ log = <<>>
    /\ where_diff = <<>> /\ epsrel = <<>> /\ where_series = <<>>
    /\ lowlim = <<>> /\ good = <<>>
    /\ log10x \in Log10xArrays

\* a step of get_pppc_spec that leads to position to with the array x
PppcStep(to, x) ==
    /\ pc' = to
    /\ log10x' = x
    /\ UNCHANGED <<selfVars, callVars, outcome, result, args, rel, spec, fn, log,
                   nonrelVars, relVars>>

\* the if statement: refine only if some sample lies in the range and the
\* array is not yet too large
PppcTest ==
    /\ fn = "get_pppc_spec" /\ pc = "called"
    /\ PppcStep(IF in_range_size(log10x) > 0 /\ Len(log10x) < size_limit
                THEN "loop" ELSE "refined", log10x)

\* the while test holds: the body is entered
PppcWhile ==
    /\ fn = "get_pppc_spec" /\ pc = "loop"
    /\ in_range_size(log10x) < MinInRange
    /\ PppcStep("body", log10x)

\* the body of the while loop, then back to its test
PppcRefine ==
    /\ fn = "get_pppc_spec" /\ pc = "body"
    /\ PppcStep("loop", doubled(log10x))

\* the while test fails: the loop ends
PppcExit ==
    /\ fn = "get_pppc_spec" /\ pc = "loop"
    /\ in_range_size(log10x) >= MinInRange
    /\ PppcStep("refined", log10x)

NextPppc == PppcTest \/ PppcWhile \/ PppcRefine \/ PppcExit

\* a call that is not suspended for ever takes its next step
SpecPppc == InitPppc /\ [][NextPppc]_vars /\ WF_vars(NextPppc)

\* C30 as stated: the refinement ends for every abscissa, also for one of a
\* single energy and for one with a single sample in the range.
C30_Terminates == <>(pc = "refined")

====
